---- MODULE Spec2Model ----
(***************************************************************************)
(* LinkForty React Native SDK: deep link handling (DeepLinkHandler) and    *)
(* install attribution (LinkFortySDK).                                     *)
(*                                                                         *)
(* JavaScript strings are sequences of one-character strings.  An optional *)
(* value (undefined / null / absent key) is None, a present one Some(v).   *)
(* Every `await` of the source is a step boundary: an action runs the code *)
(* from one suspension point to the next.                                  *)
(***************************************************************************)
EXTENDS Integers, Sequences, FiniteSets, TLC

(***************************************************************************)
(* Optional values                                                         *)
(***************************************************************************)
None == [some |-> FALSE]

Some(v) == [some |-> TRUE, val |-> v]

(***************************************************************************)
(* String primitives of the JavaScript runtime                             *)
(***************************************************************************)

\* Printable ASCII, code 32 (space) to 126 (~); the double quote, backslash and
\* backquote are written as the tokens <dq>, <bs>, <bq>.
Ascii ==
  << " ", "!", "<dq>", "#", "$", "%", "&", "'", "(", ")", "*", "+", ",", "-", ".", "/",
     "0", "1", "2", "3", "4", "5", "6", "7", "8", "9", ":", ";", "<", "=", ">", "?",
     "@", "A", "B", "C", "D", "E", "F", "G", "H", "I", "J", "K", "L", "M", "N", "O",
     "P", "Q", "R", "S", "T", "U", "V", "W", "X", "Y", "Z", "[", "<bs>", "]", "^", "_",
     "<bq>", "a", "b", "c", "d", "e", "f", "g", "h", "i", "j", "k", "l", "m", "n", "o",
     "p", "q", "r", "s", "t", "u", "v", "w", "x", "y", "z", "{", "|", "}", "~" >>

HexUpper == << "0", "1", "2", "3", "4", "5", "6", "7", "8", "9", "A", "B", "C", "D", "E", "F" >>

HexLower == << "0", "1", "2", "3", "4", "5", "6", "7", "8", "9", "a", "b", "c", "d", "e", "f" >>

IsHex(c) == \E i \in 1..16 : HexUpper[i] = c \/ HexLower[i] = c

HexVal(c) == (CHOOSE i \in 1..16 : HexUpper[i] = c \/ HexLower[i] = c) - 1

CharCode(c) == (CHOOSE i \in 1..Len(Ascii) : Ascii[i] = c) + 31

\* String.fromCharCode for one byte below 0x80; control codes are kept as a token.
FromCharCode(n) == IF n >= 32 /\ n <= 126 THEN Ascii[n - 31] ELSE "<ctl>"

\* Characters encodeURIComponent leaves alone: A-Z a-z 0-9 and the marks - _ . ! ~ * ( ) and the apostrophe
Unreserved ==
  { Ascii[i] : i \in 34..59 } \cup { Ascii[i] : i \in 66..91 } \cup { Ascii[i] : i \in 17..26 }
    \cup { "-", "_", ".", "!", "~", "*", "'", "(", ")" }

\* s.indexOf(pat): 1-based position of the first occurrence, 0 when there is none.
IndexOf(s, pat) ==
  LET hits == { i \in 1..(Len(s) - Len(pat) + 1) : SubSeq(s, i, i + Len(pat) - 1) = pat }
  IN  IF hits = {} THEN 0 ELSE CHOOSE i \in hits : \A j \in hits : i <= j

\* s.startsWith(p)
StartsWith(s, p) == Len(p) <= Len(s) /\ SubSeq(s, 1, Len(p)) = p

\* s.substring(i) with a 1-based start
From(s, i) == SubSeq(s, i, Len(s))

RECURSIVE Split(_, _)
\* s.split(c) for a one-character separator
Split(s, c) ==
  LET i == IndexOf(s, <<c>>)
  IN  IF i = 0 THEN <<s>> ELSE <<SubSeq(s, 1, i - 1)>> \o Split(From(s, i + 1), c)

\* list.filter(Boolean) on a list of strings: drops the empty ones
FilterNonEmpty(list) == SelectSeq(list, LAMBDA x : x # <<>>)

RECURSIVE Join(_, _)
\* list.join(c)
Join(list, c) ==
  IF list = <<>> THEN <<>>
  ELSE IF Len(list) = 1 THEN list[1]
  ELSE list[1] \o <<c>> \o Join(Tail(list), c)

RECURSIVE encodeURIComponent(_)
\* encodeURIComponent on ASCII text: everything but the unreserved set becomes %XX
encodeURIComponent(s) ==
  IF s = <<>> THEN <<>>
  ELSE LET c == Head(s)
           n == CharCode(c)
       IN  (IF c \in Unreserved THEN <<c>>
            ELSE << "%", HexUpper[(n \div 16) + 1], HexUpper[(n % 16) + 1] >>)
           \o encodeURIComponent(Tail(s))

RECURSIVE decodeURIComponent(_)
\* decodeURIComponent: [ok, val]; ok = FALSE is the URIError of a malformed
\* escape.  A byte of 0x80 or more that starts no valid UTF-8 sequence is
\* malformed; multi-byte sequences are outside the modelled alphabet.
decodeURIComponent(s) ==
  IF s = <<>> THEN [ok |-> TRUE, val |-> <<>>]
  ELSE IF Head(s) # "%"
       THEN LET r == decodeURIComponent(Tail(s))
            IN  [ok |-> r.ok, val |-> <<Head(s)>> \o r.val]
  ELSE IF Len(s) < 3 \/ ~IsHex(s[2]) \/ ~IsHex(s[3])
       THEN [ok |-> FALSE, val |-> <<>>]
  ELSE LET n == 16 * HexVal(s[2]) + HexVal(s[3])
           r == decodeURIComponent(From(s, 4))
       IN  IF n >= 128 THEN [ok |-> FALSE, val |-> <<>>]
           ELSE [ok |-> r.ok, val |-> <<FromCharCode(n)>> \o r.val]

(***************************************************************************)
(* DeepLinkHandler: URL parsing and local extraction                       *)
(***************************************************************************)

\* A set that keeps the value a key already has
MapSetKeepFirst(m, k, v) == [x \in (DOMAIN m) \cup {k} |-> IF x \in DOMAIN m THEN m[x] ELSE v]

\* map.set(k, v) on a Map kept as a function from key to value
MapSet(m, k, v) == [x \in (DOMAIN m) \cup {k} |-> IF x = k THEN v ELSE m[x]]

EmptyMap == [x \in {} |-> <<>>]

RECURSIVE ParsePairs(_, _)
\* The loop over queryString.split('&'): [ok, map]; ok = FALSE when a decode throws.
ParsePairs(pairs, m) ==
  IF pairs = <<>> THEN [ok |-> TRUE, map |-> m]
  ELSE LET pair == Head(pairs)
           eqIndex == IndexOf(pair, <<"=">>)
           k == decodeURIComponent(IF eqIndex = 0 THEN pair ELSE SubSeq(pair, 1, eqIndex - 1))
           v == IF eqIndex = 0 THEN [ok |-> TRUE, val |-> <<>>]
                ELSE decodeURIComponent(From(pair, eqIndex + 1))
       IN  IF ~k.ok \/ ~v.ok THEN [ok |-> FALSE, map |-> m]
           ELSE ParsePairs(Tail(pairs), MapSet(m, k.val, v.val))

\* parseUrlString without the test for '://'
parseUrlStringNoScheme(url) == Some([pathname |-> << "/" >>, searchParams |-> EmptyMap])

\* DeepLinkHandler.parseUrlString: None for null, else Some([pathname, searchParams])
parseUrlString(url) ==
  LET protocolEnd == IndexOf(url, <<":", "/", "/">>)
      afterProtocol == From(url, protocolEnd + 3)
      pathStart == IndexOf(afterProtocol, <<"/">>)
      pathAndQuery == IF pathStart = 0 THEN <<"/">> ELSE From(afterProtocol, pathStart)
      hashIndex == IndexOf(pathAndQuery, <<"#">>)
      withoutHash == IF hashIndex = 0 THEN pathAndQuery ELSE SubSeq(pathAndQuery, 1, hashIndex - 1)
      queryStart == IndexOf(withoutHash, <<"?">>)
      pathname == IF queryStart = 0 THEN withoutHash ELSE SubSeq(withoutHash, 1, queryStart - 1)
      queryString == IF queryStart = 0 THEN <<>> ELSE From(withoutHash, queryStart + 1)
      params == IF queryString = <<>> THEN [ok |-> TRUE, map |-> EmptyMap]
                ELSE ParsePairs(Split(queryString, "&"), EmptyMap)
  IN  IF protocolEnd = 0 THEN None
      ELSE IF ~params.ok THEN None
      ELSE Some([pathname |-> pathname, searchParams |-> params.map])

\* What parseUrlString writes to console.error: its catch logs once when a decode throws
parseUrlStringErrors(url) ==
  IF IndexOf(url, <<":", "/", "/">>) # 0 /\ parseUrlString(url) = None
  THEN << "[LinkForty] Failed to parse URL string:" >>
  ELSE << >>

\* parsed.pathname.split('/').filter(Boolean)
PathSegments(pathname) == FilterNonEmpty(Split(pathname, "/"))

UtmPrefix == << "u", "t", "m", "_" >>

\* searchParams.get('utm_' + name) without the || undefined
UtmFieldKeepEmpty(searchParams, name) ==
  LET k == UtmPrefix \o name
  IN  IF k \in DOMAIN searchParams THEN Some(searchParams[k]) ELSE None

\* searchParams.get('utm_' + name) || undefined
UtmField(searchParams, name) ==
  LET k == UtmPrefix \o name
  IN  IF k \in DOMAIN searchParams /\ searchParams[k] # <<>> THEN Some(searchParams[k]) ELSE None

\* A DeepLinkData value; every field of the TypeScript interface is optional here
\* because a server JSON body may leave any of them out.
LinkData(shortCode, utm, custom, dlp) ==
  [shortCode |-> shortCode, utmParameters |-> utm, customParameters |-> custom,
   deepLinkParameters |-> dlp]

\* utmParameters of parseURL: the five utm_ fields of the query
UtmParameters(sp) ==
  [source   |-> UtmField(sp, <<"s", "o", "u", "r", "c", "e">>),
   medium   |-> UtmField(sp, <<"m", "e", "d", "i", "u", "m">>),
   campaign |-> UtmField(sp, <<"c", "a", "m", "p", "a", "i", "g", "n">>),
   term     |-> UtmField(sp, <<"t", "e", "r", "m">>),
   content  |-> UtmField(sp, <<"c", "o", "n", "t", "e", "n", "t">>)]

\* customParameters without the test for zero keys
CustomParametersKeepEmpty(sp) ==
  LET customKeys == { k \in DOMAIN sp : ~StartsWith(k, UtmPrefix) }
  IN  Some([k \in customKeys |-> sp[k]])

\* customParameters of parseURL: the query parameters whose key does not
\* start with utm_; undefined when there is none
CustomParameters(sp) ==
  LET customKeys == { k \in DOMAIN sp : ~StartsWith(k, UtmPrefix) }
  IN  IF customKeys # {} THEN Some([k \in customKeys |-> sp[k]]) ELSE None

\* parseURL taking the first path segment as the short code
ParsedLinkFirst(pathSegments, sp) ==
  IF pathSegments = <<>> THEN None
  ELSE Some(LinkData(Some(pathSegments[1]), Some(UtmParameters(sp)),
                     CustomParameters(sp), None))

\* The result of parseURL once the url is parsed into path segments and query
ParsedLink(pathSegments, sp) ==
  IF pathSegments = <<>> THEN None
  ELSE Some(LinkData(Some(pathSegments[Len(pathSegments)]), Some(UtmParameters(sp)),
                     CustomParameters(sp), None))

\* parseURL without the check that the url starts with baseUrl
parseURLAnyHost(baseUrl, url) ==
  LET parsed == parseUrlString(url)
  IN  IF ~parsed.some THEN None
      ELSE ParsedLink(PathSegments(parsed.val.pathname), parsed.val.searchParams)

\* DeepLinkHandler.parseURL with this.baseUrl = baseUrl (None when unset)
parseURL(baseUrl, url) ==
  IF baseUrl.some /\ baseUrl.val # <<>> /\ ~StartsWith(url, baseUrl.val) THEN None
  ELSE LET parsed == parseUrlString(url)
       IN  IF ~parsed.some THEN None
           ELSE ParsedLink(PathSegments(parsed.val.pathname), parsed.val.searchParams)

\* parseURL running the parser before it looks at baseUrl
parseURLErrorsParseFirst(baseUrl, url) == parseUrlStringErrors(url)

\* What parseURL writes to console.error, with this.baseUrl = baseUrl
parseURLErrors(baseUrl, url) ==
  IF baseUrl.some /\ baseUrl.val # <<>> /\ ~StartsWith(url, baseUrl.val) THEN << >>
  ELSE parseUrlStringErrors(url)

(***************************************************************************)
(* DeepLinkHandler: resolve endpoint                                       *)
(***************************************************************************)

ResolvePrefix ==
  << "/", "a", "p", "i", "/", "s", "d", "k", "/", "v", "1", "/",
     "r", "e", "s", "o", "l", "v", "e", "/" >>

\* buildQueryString without the percent-encoding
buildQueryStringRaw(params) ==
  Join([i \in 1..Len(params) |-> params[i][1] \o <<"=">> \o params[i][2]], "&")

\* DeepLinkHandler.buildQueryString over the entries of params, a list of <<key, value>>
buildQueryString(params) ==
  Join([i \in 1..Len(params) |->
          encodeURIComponent(params[i][1]) \o <<"=">> \o encodeURIComponent(params[i][2])],
       "&")

\* resolveURL always taking the bare short-code form
EndpointOfFirstOnly(pathSegments) ==
  IF pathSegments = <<>> THEN None ELSE Some(ResolvePrefix \o pathSegments[1])

\* The endpoint resolveURL picks from the path segments: None when there is none
EndpointOf(pathSegments) ==
  IF pathSegments = <<>> THEN None
  ELSE IF Len(pathSegments) >= 2
       THEN Some(ResolvePrefix \o pathSegments[1] \o <<"/">> \o pathSegments[2])
  ELSE Some(ResolvePrefix \o pathSegments[1])

\* The part of resolveURL before the fingerprint: None when it returns null early
ResolveEndpoint(url) ==
  LET parsed == parseUrlString(url)
  IN  IF ~parsed.some THEN None ELSE EndpointOf(PathSegments(parsed.val.pathname))

Undefined == << "u", "n", "d", "e", "f", "i", "n", "e", "d" >>

\* fpParams of resolveURL, in insertion order
FpParams(fingerprint) ==
  LET parts == Split(fingerprint.screenResolution, "x")
      sw == parts[1]
      sh == IF Len(parts) >= 2 THEN parts[2] ELSE Undefined
  IN  << << <<"f", "p", "_", "t", "z">>, fingerprint.timezone >>,
         << <<"f", "p", "_", "l", "a", "n", "g">>, fingerprint.language >>,
         << <<"f", "p", "_", "s", "w">>, sw >>,
         << <<"f", "p", "_", "s", "h">>, sh >>,
         << <<"f", "p", "_", "p", "l", "a", "t", "f", "o", "r", "m">>, fingerprint.platform >> >>
      \o (IF fingerprint.osVersion.some /\ fingerprint.osVersion.val # <<>>
          THEN << << <<"f", "p", "_", "p", "v">>, fingerprint.osVersion.val >> >>
          ELSE << >>)

\* resolvePath as passed to resolveFn: fp is Some(fingerprint), or None when
\* FingerprintCollector.collect() threw
ResolvePath(endpoint, fp) ==
  IF fp.some THEN endpoint \o <<"?">> \o buildQueryString(FpParams(fp.val)) ELSE endpoint

(***************************************************************************)
(* Bounds and input sets                                                   *)
(***************************************************************************)

\* handleDeepLink invocations (URL events times listeners, plus initial URLs) per run
MaxProcs == 2

\* onDeepLink registrations per run
MaxRegs == 1

\* Calls of the host into LinkFortySDK (init, onDeferredDeepLink, clearData,
\* trackEvent, createLink) and app launches per run
MaxCalls == 3

\* config.baseUrl
BaseUrl == << "a", ":", "/", "/", "g" >>

\* The longest path, in segments, of the urls handed to the parser
MaxSegs == 3

\* What a url handed to the parser starts with: the configured base, another host,
\* and a text without '://'
ForeignBase == << "a", ":", "/", "/", "x" >>

NoScheme == << "a", ":", "g" >>

Prefixes == {BaseUrl, ForeignBase, NoScheme}

\* The texts between two '/' of a path: two codes, the empty text and a code
\* written with a percent escape (%41 is A)
Segments == { << "c" >>, << "t" >>, << >>, << "%", "4", "1" >> }

\* The paths: each segment is written after a '/'
Paths == UNION { [1..n -> Segments] : n \in 0..MaxSegs }

\* The query strings, each with the parameters it spells out (ok = FALSE when an
\* escape in it is malformed); text = None is a url without '?'
NoQuery == [text |-> None, ok |-> TRUE, params |-> EmptyMap]

QueryCustom == [text |-> Some(<< "k", "=", "v" >>), ok |-> TRUE, params |-> (<< "k" >> :> << "v" >>)]

QueryMixed ==
  [text |-> Some(<< "u", "t", "m", "_", "s", "o", "u", "r", "c", "e", "=", "f", "b", "&", "r", "=", "4", "2" >>), ok |-> TRUE,
   params |-> (<< "u", "t", "m", "_", "s", "o", "u", "r", "c", "e" >> :> << "f", "b" >>) @@ (<< "r" >> :> << "4", "2" >>)]

QueryUtmOnly ==
  [text |-> Some(<< "u", "t", "m", "_", "m", "e", "d", "i", "u", "m", "=", "%", "4", "1" >>), ok |-> TRUE,
   params |-> (<< "u", "t", "m", "_", "m", "e", "d", "i", "u", "m" >> :> << "A" >>)]

QueryEmptyUtm ==
  [text |-> Some(<< "u", "t", "m", "_", "t", "e", "r", "m", "=" >>), ok |-> TRUE, params |-> (<< "u", "t", "m", "_", "t", "e", "r", "m" >> :> << >>)]

QueryBadEscape == [text |-> Some(<< "k", "=", "%" >>), ok |-> FALSE, params |-> EmptyMap]

QuerySlash == [text |-> Some(<< "k", "=", "/", "v" >>), ok |-> TRUE, params |-> (<< "k" >> :> << "/", "v" >>)]

Queries ==
  {NoQuery, QueryCustom, QueryMixed, QueryUtmOnly, QueryEmptyUtm, QueryBadEscape, QuerySlash}

\* The fragments: none, a plain one, one with a '/' and one with a '?'
Fragments == { None, Some(<< "x" >>), Some(<< "x", "/", "y" >>), Some(<< "x", "?", "y" >>) }

\* The urls handed to the parser, by their parts
ParseInputs ==
  { [prefix |-> p, segs |-> g, query |-> q, frag |-> f] :
      p \in Prefixes, g \in Paths, q \in Queries, f \in Fragments }

\* The most entries of an object handed to buildQueryString
MaxParams == 2

\* Keys and values with the reserved characters & = % space # ? /
RoundTripStrings == { << >>, << "a" >>, << "&", "=" >>, << "%" >>, << " ", "#" >>, << "?", "/" >> }

\* The objects handed to buildQueryString, as the list of their entries: the keys of
\* an object are distinct
ParamLists ==
  { l \in UNION { [1..n -> RoundTripStrings \X RoundTripStrings] : n \in 0..MaxParams } :
      \A i, j \in 1..Len(l) : l[i][1] = l[j][1] => i = j }

\* The inputs of the round trip through buildQueryString and parseUrlString
ParamInputs == { [params |-> l] : l \in ParamLists }

\* Query strings that exercise the splitting: k=1&k=2 (a key twice), k&j= (a pair
\* without '=' and one with an empty value), k=a=b (a second '=') and
\* a%3Db=c%26d (escaped separators in key and value)
SplitQueries ==
  { [text |-> Some(<< "k", "=", "1", "&", "k", "=", "2" >>), ok |-> TRUE,
     params |-> (<< "k" >> :> << "2" >>)],
    [text |-> Some(<< "k", "&", "j", "=" >>), ok |-> TRUE,
     params |-> (<< "k" >> :> << >>) @@ (<< "j" >> :> << >>)],
    [text |-> Some(<< "k", "=", "a", "=", "b" >>), ok |-> TRUE,
     params |-> (<< "k" >> :> << "a", "=", "b" >>)],
    [text |-> Some(<< "a", "%", "3", "D", "b", "=", "c", "%", "2", "6", "d" >>), ok |-> TRUE,
     params |-> (<< "a", "=", "b" >> :> << "c", "&", "d" >>)] }

\* The urls a://g/c?query for these query strings
QueryInputs ==
  { [prefix |-> BaseUrl, segs |-> << << "c" >> >>, query |-> q, frag |-> None] :
      q \in SplitQueries }

\* The input is a url, given by its parts
IsUrl(in) == "prefix" \in DOMAIN in

RECURSIVE PathText(_)
\* The path of a url: '/' and the segment, for each segment
PathText(segs) ==
  IF segs = << >> THEN << >> ELSE << "/" >> \o Head(segs) \o PathText(Tail(segs))

\* The text of a url given by its parts
Text(in) ==
  in.prefix \o PathText(in.segs)
    \o (IF in.query.text.some THEN << "?" >> \o in.query.text.val ELSE << >>)
    \o (IF in.frag.some THEN << "#" >> \o in.frag.val ELSE << >>)

\* The configurations handed to init(): without and with an API key
Config == [baseUrl |-> BaseUrl, apiKey |-> None]

ConfigWithKey == [baseUrl |-> BaseUrl, apiKey |-> Some("key")]

Configs == {Config, ConfigWithKey}

\* a://g/c : bare short-code form
UrlShort == BaseUrl \o << "/", "c" >>

\* a://g/t/c?k=v : template-slug form with a custom query parameter
UrlTemplate == BaseUrl \o << "/", "t", "/", "c", "?", "k", "=", "v" >>

\* a://x/c : does not start with baseUrl
UrlForeign == << "a", ":", "/", "/", "x", "/", "c" >>

\* a://g : starts with baseUrl, no path segment
UrlNoPath == BaseUrl

\* a://g/c?k=% : malformed percent escape
UrlBadEscape == BaseUrl \o << "/", "c", "?", "k", "=", "%" >>

\* The urls the platform may deliver; the empty string stands for a missing url.
Urls == { UrlShort, UrlTemplate, UrlForeign, UrlNoPath, UrlBadEscape, << >> }

\* Host callbacks for direct links; CbThrow raises when it is called.
DeepLinkCallbacks == { "cb1", "cb2", "cbThrow" }

Throws(cb) == cb = "cbThrow"

\* A resolve response body: a record the server holds for the link
RemoteRecord ==
  LinkData(Some(<<"c">>), None, Some((<<"r">> :> <<"A">>)), None)

\* Outcomes of the fetch behind apiRequest: a 2xx JSON body (a record or
\* null), a non-2xx status, a rejected fetch.
FetchOutcomes ==
  { [kind |-> "ok", body |-> Some(RemoteRecord)],
    [kind |-> "ok", body |-> None],
    [kind |-> "http", body |-> None],
    [kind |-> "network", body |-> None] }

\* Host callbacks for deferred links
DeferredCallbacks == { "d1", "d2" }

MapA == (<< "r" >> :> << "A" >>)

MapX == (<< "x" >> :> << "1" >>)

\* deepLinkData payloads of an attributed install response: the map under
\* deepLinkParameters only, under customParameters only, under both names
\* with different contents, an empty deepLinkParameters next to a filled
\* customParameters, and under neither.
Payloads ==
  { LinkData(Some(<< "c" >>), None, None, Some(MapA)),
    LinkData(Some(<< "c" >>), None, Some(MapA), None),
    LinkData(Some(<< "c" >>), None, Some(MapX), Some(MapA)),
    LinkData(Some(<< "c" >>), None, Some(MapX), Some(EmptyMap)),
    LinkData(Some(<< "c" >>), None, None, None) }

\* The empty object, which the type of deepLinkData admits
EmptyRecord == LinkData(None, None, None, None)

\* InstallAttributionResponse bodies: attributed with a payload or with the empty
\* object, or organic with the empty object as deepLinkData
InstallResponses ==
  { [installId |-> Some(<< "i", "1" >>), attributed |-> TRUE, deepLinkData |-> Some(d)] :
      d \in Payloads \cup {EmptyRecord} }
  \cup { [installId |-> Some(<< "i", "1" >>), attributed |-> FALSE,
          deepLinkData |-> Some(LinkData(None, None, None, None))] }

\* Outcomes of the install request: a 2xx body, a non-2xx status, a rejected fetch
InstallOutcomes ==
  { [kind |-> "ok", body |-> Some(r)] : r \in InstallResponses }
  \cup { [kind |-> "http", body |-> None], [kind |-> "network", body |-> None] }

\* FingerprintCollector.collect() result
Fingerprint ==
  [timezone |-> << "U", "/", "C" >>, language |-> << "e", "n" >>,
   screenResolution |-> << "4", "x", "8" >>, platform |-> << "i", "o", "s" >>,
   osVersion |-> Some(<< "1", "7" >>)]

\* Outcomes of FingerprintCollector.collect(): a record, or None when it throws
FingerprintOutcomes == { Some(Fingerprint), None }

(***************************************************************************)
(* State                                                                   *)
(***************************************************************************)
VARIABLES
  config,                    \* LinkFortySDK.config: None or Some([baseUrl])
  initialized,               \* LinkFortySDK.initialized
  installId,                 \* LinkFortySDK.installId
  deferredDeepLinkCallback,  \* LinkFortySDK.deferredDeepLinkCallback
  deepLinkHandler,           \* LinkFortySDK.deepLinkHandler: 0 for null, else an index of handlers
  handlers,                  \* the DeepLinkHandler instances constructed so far
  listeners,                 \* Linking's 'url' listeners: handler indices in registration order
  initialUrl,                \* what Linking.getInitialURL() resolves to on this launch
  initialPending,            \* handlers whose getInitialURL().then(...) has not run yet
  procs,                     \* the handleDeepLink invocations that are suspended at an await
  finished,                  \* the handleDeepLink invocations that the latest step ended
  started,                   \* number of handleDeepLink invocations so far
  regs,                      \* number of onDeepLink calls made
  storage,                   \* AsyncStorage: the three @linkforty keys
  inits,                     \* the init() calls that are suspended at an await
  lookups,                   \* getInstallData() reads of onDeferredDeepLink whose then has not run
  clears,                    \* clearData() calls whose multiRemove has not returned
  deferredCalls,             \* calls of the deferred callback on this launch: [cb, data, report]
  reports,                   \* install reports ended on this launch: [kind, response, cbAtStart, cb]
  attributedEver,            \* an attributed install response was received since install or clearData
  flagAtLaunch,              \* the first-launch flag was stored when this launch began
  cleared,                   \* clearData() was called on this launch
  calls,                     \* host calls into LinkFortySDK and relaunches so far
  apiCalls,                  \* the trackEvent / createLink calls and the refused onDeepLink
                             \* calls of this launch, each with how it ended so far
  pin,                       \* the url handed to the parser: its parts and its text
  pout                       \* what the parser operation applied to pin returned

vars ==
  << config, initialized, installId, deferredDeepLinkCallback, deepLinkHandler,
     handlers, listeners, initialUrl, initialPending, procs, finished, started,
     regs, storage, inits, lookups, clears, deferredCalls, reports, attributedEver,
     flagAtLaunch, cleared, calls, apiCalls, pin, pout >>

\* The state of the host API calls and of the parser
apiVars == << apiCalls, pin, pout >>

\* What the deep link path leaves alone
sdkVars ==
  << config, initialized, installId, deferredDeepLinkCallback, storage, inits,
     lookups, clears, deferredCalls, reports, attributedEver, flagAtLaunch,
     cleared, calls, apiVars >>

\* What the install path leaves alone
linkVars ==
  << listeners, initialUrl, initialPending, procs, finished, started, regs, apiVars >>

\* The messages of the errors the host API raises
NotInitialized == "SDK not initialized. Call init() first."

ApiKeyRequired == "API key required to create links. Pass apiKey in init()."

\* The record of a host call that threw or rejected before anything was sent
Refused(api, error) ==
  [api |-> api, result |-> "failed", error |-> Some(error), sent |-> FALSE,
   outcome |-> None]

\* The record of a trackEvent / createLink call whose request is in flight
InFlight(api) ==
  [api |-> api, result |-> "pending", error |-> None, sent |-> TRUE, outcome |-> None]

\* The record of a trackEvent or init call that returned without sending
Skipped(api) ==
  [api |-> api, result |-> "returned", error |-> None, sent |-> FALSE, outcome |-> None]

\* AsyncStorage with none of the keys set
EmptyStorage == [first_launch |-> None, install_id |-> None, install_data |-> None]

\* new DeepLinkHandler(): the field initialisers
NewHandler == [callback |-> None, baseUrl |-> None, resolveFn |-> None]

(***************************************************************************)
(* DeepLinkHandler.handleDeepLink                                          *)
(***************************************************************************)

\* A handler that keeps the url of the latest event in a field and hands that
\* one to the callback
CallCallbackLatestUrl(cb, p, data) ==
  IF ~cb.some THEN [p EXCEPT !.fault = "TypeError"]
  ELSE [p EXCEPT !.calls = Append(@, [cb |-> cb.val,
                                      url |-> IF procs # << >> THEN procs[Len(procs)].url
                                              ELSE p.url,
                                      data |-> data]),
                 !.fault = IF Throws(cb.val) THEN "CallbackError" ELSE "none"]

\* One call of this.callback(url, data) by invocation p, with cb the value of
\* this.callback at that moment: the call is recorded when there is a
\* callback; fault is what the call raises ("TypeError" when this.callback is
\* null).
CallCallback(cb, p, data) ==
  IF ~cb.some THEN [p EXCEPT !.fault = "TypeError"]
  ELSE [p EXCEPT !.calls = Append(@, [cb |-> cb.val, url |-> p.url, data |-> data]),
                 !.fault = IF Throws(cb.val) THEN "CallbackError" ELSE "none"]

\* A fallback that tells the callback null where it has the local data
FallbackNull(cb, p) == [CallCallback(cb, p, None) EXCEPT !.pc = "done"]

\* Line 144: this.callback(url, localData), outside any try
Fallback(cb, p) == [CallCallback(cb, p, p.localData) EXCEPT !.pc = "done"]

\* handleDeepLink without the return that follows the delivery of the
\* resolved data: the local fallback runs as well
AfterResolveNoReturn(cb, p, result) ==
  IF ~result.rejected /\ result.data.some
  THEN Fallback(cb, [CallCallback(cb, p, result.data) EXCEPT !.fault = "none"])
  ELSE Fallback(cb, p)

\* Lines 129-137 and 144, once resolveURL has settled with result:
\* [rejected, data].  A raise inside the try block, the callback's included,
\* lands in the catch and falls through to the local fallback.
AfterResolve(cb, p, result) ==
  IF ~result.rejected /\ result.data.some
  THEN LET q == CallCallback(cb, p, result.data)
       IN  IF q.fault = "none" THEN [q EXCEPT !.pc = "done"]
           ELSE Fallback(cb, [q EXCEPT !.fault = "none"])
  ELSE Fallback(cb, p)

\* The record of a handleDeepLink({url}) invocation on handler h; ev
\* identifies the url event by the number of its first invocation (0: the
\* initial url), nl is the number of listeners it was emitted to; received
\* tells that the url was not empty and a callback was registered; endpoint
\* is the local of resolveURL that is set before the fingerprint is awaited; rf
\* is the resolver that resolveURL called, and resolved is how resolveURL settled.
NewInvocation(h, url, ev, nl) ==
  [h |-> h, url |-> url, ev |-> ev, nl |-> nl, pc |-> "start", received |-> FALSE,
   localData |-> None, endpoint |-> None, path |-> None, fp |-> None, requests |-> 0,
   outcome |-> None, calls |-> << >>, fault |-> "none", rf |-> None, resolved |-> None]

\* A handleDeepLink that awaits the fingerprint whenever the url has a code,
\* with or without local data and resolver
DispatchResolveFirst(hd, p, endpoint) ==
  IF endpoint.some THEN [p EXCEPT !.pc = "fingerprint", !.endpoint = endpoint]
  ELSE Fallback(hd.callback, p)

\* Lines 120-144 up to the first suspension, for invocation p that holds the
\* local data; endpoint is what resolveURL finds before it collects the
\* fingerprint.
Dispatch(hd, p, endpoint) ==
  IF p.localData.some /\ hd.resolveFn.some /\ hd.baseUrl.some /\ hd.baseUrl.val # << >>
     /\ StartsWith(p.url, hd.baseUrl.val)
  THEN IF endpoint.some THEN [p EXCEPT !.pc = "fingerprint", !.endpoint = endpoint]
       ELSE AfterResolve(hd.callback, p, [rejected |-> FALSE, data |-> None])
  ELSE Fallback(hd.callback, p)

\* handleDeepLink({url}) on handler h (with fields hd) up to its first
\* suspension
StartHandle(hd, h, url, ev, nl) ==
  IF ~hd.callback.some \/ url = << >>
  THEN [NewInvocation(h, url, ev, nl) EXCEPT !.pc = "done"]
  ELSE Dispatch(hd,
                [NewInvocation(h, url, ev, nl) EXCEPT !.received = TRUE,
                                                      !.localData = parseURL(hd.baseUrl, url)],
                ResolveEndpoint(url))

\* A resolver that drops the response body
SdkResolveFnDrop(outcome) == [rejected |-> FALSE, data |-> None]

\* The resolver built by LinkFortySDK.onDeepLink around apiRequest: a failed
\* request is caught and becomes null.
SdkResolveFn(outcome) ==
  IF outcome.kind = "ok" THEN [rejected |-> FALSE, data |-> outcome.body]
  ELSE [rejected |-> FALSE, data |-> None]

\* A resolver injected by the host that lets a failed request reject
HostResolveFn(outcome) ==
  IF outcome.kind = "ok" THEN [rejected |-> FALSE, data |-> outcome.body]
  ELSE [rejected |-> TRUE, data |-> None]

\* What the promise of resolver rf settles with for the outcome of its request
ResolveFn(rf, outcome) ==
  IF rf = "sdk" THEN SdkResolveFn(outcome) ELSE HostResolveFn(outcome)

\* What this.resolveFn(resolvePath) raises when this.resolveFn is null by now
NotAFunction == [rejected |-> TRUE, data |-> None]

Running(ps) == SelectSeq(ps, LAMBDA p : p.pc # "done")

Ended(ps) == SelectSeq(ps, LAMBDA p : p.pc = "done")

\* Bookkeeping after a step that started the invocations ps
Started(ps) ==
  /\ procs' = procs \o Running(ps)
  /\ finished' = Ended(ps)
  /\ started' = started + Len(ps)

(***************************************************************************)
(* Actions of the deep link path                                           *)
(***************************************************************************)

\* LinkFortySDK.onDeepLink(cb) with DeepLinkHandler.initialize
OnDeepLink(cb) ==
  /\ regs < MaxRegs
  /\ regs' = regs + 1
  /\ IF ~config.some
     THEN /\ apiCalls' = Append(apiCalls, Refused("onDeepLink", NotInitialized))
          /\ UNCHANGED << config, initialized, installId, deferredDeepLinkCallback,
                          deepLinkHandler, handlers, listeners, initialUrl,
                          initialPending, procs, finished, started, storage, inits,
                          lookups, clears, deferredCalls, reports, attributedEver,
                          flagAtLaunch, cleared, calls, pin, pout >>
     ELSE /\ LET fresh == deepLinkHandler = 0
                 hs == IF fresh THEN Append(handlers, NewHandler) ELSE handlers
                 h == IF fresh THEN Len(hs) ELSE deepLinkHandler
             IN  /\ handlers' = [hs EXCEPT ![h] = [callback |-> Some(cb),
                                                   baseUrl |-> Some(config.val.baseUrl),
                                                   resolveFn |-> Some("sdk")]]
                 /\ deepLinkHandler' = h
                 /\ listeners' = Append(listeners, h)
                 /\ initialPending' = Append(initialPending, h)
          /\ finished' = << >>
          /\ UNCHANGED << sdkVars, initialUrl, procs, started >>

\* The continuation of Linking.getInitialURL().then(...) of the oldest initialize
InitialURL ==
  /\ initialPending # << >>
  /\ initialPending' = Tail(initialPending)
  /\ IF initialUrl.some /\ initialUrl.val # << >>
     THEN /\ started < MaxProcs
          /\ LET h == Head(initialPending)
             IN  Started(<< StartHandle(handlers[h], h, initialUrl.val, 0, Len(listeners)) >>)
     ELSE finished' = << >> /\ UNCHANGED << procs, started >>
  /\ UNCHANGED << sdkVars, deepLinkHandler, handlers, listeners, initialUrl, regs >>

\* The platform delivers a url event: Linking emits 'url' and every listener
\* runs, in registration order
UrlEvent(url) ==
  /\ listeners # << >>
  /\ started + Len(listeners) <= MaxProcs
  /\ Started([k \in 1..Len(listeners) |->
                StartHandle(handlers[listeners[k]], listeners[k], url, started + 1,
                            Len(listeners))])
  /\ UNCHANGED << sdkVars, deepLinkHandler, handlers, listeners, initialUrl,
                  initialPending, regs >>

\* procs without its i-th element
Without(ps, i) == SubSeq(ps, 1, i - 1) \o SubSeq(ps, i + 1, Len(ps))

\* A resolveURL that lets a failed fingerprint collection end the resolution:
\* no request is made and the local fallback runs
FingerprintDoneAbort(i, fp) ==
  /\ procs[i].pc = "fingerprint"
  /\ IF fp.some
     THEN /\ procs' = [procs EXCEPT ![i] =
               [procs[i] EXCEPT !.pc = "fetch", !.fp = Some(fp),
                                !.path = Some(ResolvePath(procs[i].endpoint.val, fp)),
                                !.requests = @ + 1,
                                !.rf = handlers[procs[i].h].resolveFn]]
          /\ finished' = << >>
     ELSE /\ procs' = Without(procs, i)
          /\ finished' = << Fallback(handlers[procs[i].h].callback,
                                     [procs[i] EXCEPT !.fp = Some(fp)]) >>
  /\ UNCHANGED << sdkVars, deepLinkHandler, handlers, listeners, initialUrl,
                  initialPending, started, regs >>

\* FingerprintCollector.collect() settles for invocation i; resolveURL builds
\* the path and calls this.resolveFn, which issues the request.  When a later
\* initialize() has left no resolver, the call raises, resolveURL rejects and
\* handleDeepLink runs to its end.
FingerprintDone(i, fp) ==
  /\ procs[i].pc = "fingerprint"
  /\ IF handlers[procs[i].h].resolveFn.some
     THEN /\ procs' = [procs EXCEPT ![i] =
               [procs[i] EXCEPT !.pc = "fetch", !.fp = Some(fp),
                                !.path = Some(ResolvePath(procs[i].endpoint.val, fp)),
                                !.requests = @ + 1,
                                !.rf = handlers[procs[i].h].resolveFn]]
          /\ finished' = << >>
     ELSE /\ procs' = Without(procs, i)
          /\ finished' = << AfterResolve(handlers[procs[i].h].callback,
                                         [procs[i] EXCEPT !.fp = Some(fp),
                                                          !.resolved = Some(NotAFunction)],
                                         NotAFunction) >>
  /\ UNCHANGED << sdkVars, deepLinkHandler, handlers, listeners, initialUrl,
                  initialPending, started, regs >>

\* A resolver that issues the request a second time when the first one fails
FetchDoneRetry(i, outcome) ==
  /\ procs[i].pc = "fetch"
  /\ IF outcome.kind # "ok" /\ procs[i].requests < 2
     THEN /\ procs' = [procs EXCEPT ![i] = [procs[i] EXCEPT !.requests = @ + 1]]
          /\ finished' = << >>
     ELSE /\ procs' = Without(procs, i)
          /\ finished' = << AfterResolve(handlers[procs[i].h].callback,
                                         [procs[i] EXCEPT !.outcome = Some(outcome),
                                                          !.resolved =
                                                            Some(ResolveFn(procs[i].rf.val, outcome))],
                                         ResolveFn(procs[i].rf.val, outcome)) >>
  /\ UNCHANGED << sdkVars, deepLinkHandler, handlers, listeners, initialUrl,
                  initialPending, started, regs >>

\* The request of invocation i settles; handleDeepLink runs to its end
FetchDone(i, outcome) ==
  /\ procs[i].pc = "fetch"
  /\ procs' = Without(procs, i)
  /\ finished' = << AfterResolve(handlers[procs[i].h].callback,
                                 [procs[i] EXCEPT !.outcome = Some(outcome),
                                                  !.resolved =
                                                    Some(ResolveFn(procs[i].rf.val, outcome))],
                                 ResolveFn(procs[i].rf.val, outcome)) >>
  /\ UNCHANGED << sdkVars, deepLinkHandler, handlers, listeners, initialUrl,
                  initialPending, started, regs >>

\* DeepLinkHandler.cleanup() on handler h
Cleanup(h) ==
  /\ handlers[h].callback.some
  /\ listeners' = << >>
  /\ handlers' = [handlers EXCEPT ![h].callback = None]
  /\ finished' = << >>
  /\ UNCHANGED << sdkVars, deepLinkHandler, initialUrl, initialPending, procs,
                  started, regs >>

\* The deep link path seen from an SDK whose init() has completed
InitLink ==
  /\ config = Some(Config)
  /\ initialized = TRUE
  /\ installId = None
  /\ deferredDeepLinkCallback = None
  /\ deepLinkHandler = 1
  /\ handlers = << NewHandler >>
  /\ listeners = << >>
  /\ initialUrl \in { None, Some(UrlShort) }
  /\ initialPending = << >>
  /\ procs = << >>
  /\ finished = << >>
  /\ started = 0
  /\ regs = 0
  /\ storage = [EmptyStorage EXCEPT !.first_launch = Some("true")]
  /\ inits = << >>
  /\ lookups = << >>
  /\ clears = 0
  /\ deferredCalls = << >>
  /\ reports = << >>
  /\ attributedEver = FALSE
  /\ flagAtLaunch = FALSE
  /\ cleared = FALSE
  /\ calls = 1
  /\ apiCalls = << >>
  /\ pin = None
  /\ pout = None

NextLink ==
  \/ \E cb \in DeepLinkCallbacks : OnDeepLink(cb)
  \/ InitialURL
  \/ \E url \in Urls : UrlEvent(url)
  \/ \E i \in 1..Len(procs), fp \in FingerprintOutcomes : FingerprintDone(i, fp)
  \/ \E i \in 1..Len(procs), outcome \in FetchOutcomes : FetchDone(i, outcome)
  \/ \E h \in 1..Len(handlers) : Cleanup(h)

SpecLink == InitLink /\ [][NextLink]_vars

\* The deep link path once a component has registered its callback with onDeepLink
\* and the lookup of the initial url has answered that there is none
InitRereg ==
  /\ config = Some(Config)
  /\ initialized = TRUE
  /\ installId = None
  /\ deferredDeepLinkCallback = None
  /\ deepLinkHandler = 1
  /\ handlers = << [callback |-> Some("cb1"), baseUrl |-> Some(BaseUrl),
                    resolveFn |-> Some("sdk")] >>
  /\ listeners = << 1 >>
  /\ initialUrl = None
  /\ initialPending = << >>
  /\ procs = << >>
  /\ finished = << >>
  /\ started = 0
  /\ regs = 0
  /\ storage = [EmptyStorage EXCEPT !.first_launch = Some("true")]
  /\ inits = << >>
  /\ lookups = << >>
  /\ clears = 0
  /\ deferredCalls = << >>
  /\ reports = << >>
  /\ attributedEver = FALSE
  /\ flagAtLaunch = FALSE
  /\ cleared = FALSE
  /\ calls = 2
  /\ apiCalls = << >>
  /\ pin = None
  /\ pout = None

\* Registrations that follow a first one
SpecRereg == InitRereg /\ [][NextLink]_vars

\* The resolvers a host hands to initialize(): none, or its own
HostResolvers == { None, Some("host") }

\* DeepLinkHandler.initialize(baseUrl, callback, resolveFn) called by the host on
\* the handler itself
Initialize(cb, rf) ==
  /\ regs < MaxRegs
  /\ regs' = regs + 1
  /\ deepLinkHandler # 0
  /\ handlers' = [handlers EXCEPT ![deepLinkHandler] =
                    [callback |-> Some(cb), baseUrl |-> Some(BaseUrl), resolveFn |-> rf]]
  /\ listeners' = Append(listeners, deepLinkHandler)
  /\ initialPending' = Append(initialPending, deepLinkHandler)
  /\ finished' = << >>
  /\ UNCHANGED << sdkVars, deepLinkHandler, initialUrl, procs, started >>

\* A DeepLinkHandler used by the host without LinkFortySDK around it
NextHandler ==
  \/ \E cb \in DeepLinkCallbacks, rf \in HostResolvers : Initialize(cb, rf)
  \/ InitialURL
  \/ \E url \in Urls : UrlEvent(url)
  \/ \E i \in 1..Len(procs), fp \in FingerprintOutcomes : FingerprintDone(i, fp)
  \/ \E i \in 1..Len(procs), outcome \in FetchOutcomes : FetchDone(i, outcome)
  \/ \E h \in 1..Len(handlers) : Cleanup(h)

SpecHandler == InitLink /\ [][NextHandler]_vars

\* The fingerprint collection and the request of every suspended invocation
\* settle: collect() awaits device queries that answer, and fetch settles
\* with a response or a network error.
FairSpecLink ==
  /\ SpecLink
  /\ WF_vars(\E i \in 1..Len(procs), fp \in FingerprintOutcomes : FingerprintDone(i, fp))
  /\ WF_vars(\E i \in 1..Len(procs), outcome \in FetchOutcomes : FetchDone(i, outcome))

(***************************************************************************)
(* Properties of the deep link path                                        *)
(***************************************************************************)

\* The callback of the handler of invocation p is registered and returns normally
Registered(p) ==
  /\ handlers[p.h].callback.some
  /\ ~Throws(handlers[p.h].callback.val)

\* Invocation p called the callback exactly once, with its own url and data
CalledOnceWith(p, data) ==
  p.calls = << [cb |-> handlers[p.h].callback.val, url |-> p.url, data |-> data] >>

\* The invocations the latest step ended, as a set
FinishedSet == { finished[j] : j \in 1..Len(finished) }

\* The invocations that are suspended, as a set
SuspendedSet == { procs[i] : i \in 1..Len(procs) }

\* The resolver answered invocation p with a record
RemoteFound(p) == p.outcome.some /\ p.outcome.val.kind = "ok" /\ p.outcome.val.body.some

\* C1, the count: with the callback registered once and returning normally,
\* a url event with a non-empty url is handled by one invocation, the
\* invocation calls the callback exactly once when it ends, with the url of
\* the event, and no invocation calls it before it ends.
C1_Once ==
  /\ \A p \in SuspendedSet : p.calls = << >>
  /\ regs = 1 =>
       \A p \in FinishedSet :
         (p.url # << >> /\ Registered(p)) =>
           /\ p.received /\ p.nl = 1 /\ p.fault = "none"
           /\ Len(p.calls) = 1
           /\ p.calls[1].url = p.url
           /\ p.calls[1].cb = handlers[p.h].callback.val

\* C1: every url event with a non-empty url that is received while a
\* callback is registered leads to exactly one call of the callback with
\* that url, whatever the outcome of the extraction and of the resolution:
\* the count above holds always, and every suspended invocation ends.
C1_DeliveredOnce ==
  /\ []C1_Once
  /\ \A e \in 0..MaxProcs :
       (\E p \in SuspendedSet : p.ev = e) ~> (\E p \in FinishedSet : p.ev = e)

\* An invocation that went through a failed request ended with one call
C1_Witness ==
  /\ regs = 1
  /\ \E p \in FinishedSet :
       /\ Registered(p) /\ p.outcome = Some([kind |-> "network", body |-> None])
       /\ Len(p.calls) = 1 /\ p.calls[1].url = UrlTemplate

\* C2: when the resolver answers with a record, the callback is told exactly
\* that record, not the locally extracted one: it is the data of the first
\* call, and the only call when the callback returns normally.
C2_RemoteDelivered ==
  \A p \in FinishedSet :
    (RemoteFound(p) /\ handlers[p.h].callback.some) =>
      /\ p.calls # << >>
      /\ p.calls[1].data = p.outcome.val.body
      /\ Registered(p) => CalledOnceWith(p, p.outcome.val.body)

\* The remote record was delivered where the local record differs from it
C2_Witness ==
  \E p \in FinishedSet :
    /\ RemoteFound(p) /\ Registered(p)
    /\ p.localData.some /\ p.localData # p.outcome.val.body
    /\ CalledOnceWith(p, Some(RemoteRecord))

\* C3: when the resolver answers null or the request fails, the callback is
\* told the locally extracted record as parseURL gave it, once, and nothing
\* is raised to the host.
C3_LocalFallback ==
  \A p \in FinishedSet :
    (p.outcome.some /\ ~RemoteFound(p) /\ Registered(p)) =>
      /\ p.localData = parseURL(handlers[p.h].baseUrl, p.url)
      /\ p.localData.some
      /\ CalledOnceWith(p, p.localData)
      /\ p.fault = "none"
      /\ ~SdkResolveFn(p.outcome.val).rejected

\* A non-2xx answer ended in the delivery of the local record with its
\* custom parameter
C3_Witness ==
  \E p \in FinishedSet :
    /\ Registered(p) /\ p.outcome = Some([kind |-> "http", body |-> None])
    /\ p.url = UrlTemplate
    /\ p.calls[1].data.val.customParameters = Some((<< "k" >> :> << "v" >>))
    /\ p.calls[1].data.val.shortCode = Some(<< "c" >>)

\* The urls of the input set from which nothing can be extracted
NoLinkUrls == { UrlForeign, UrlNoPath, UrlBadEscape }

C5_OneRequest ==
  /\ \A p \in SuspendedSet :
       /\ p.requests = (IF p.pc = "fetch" THEN 1 ELSE 0)
       /\ regs = 1 => p.nl = 1
  /\ \A p \in FinishedSet :
       /\ p.requests <= 1
       /\ p.outcome.some => p.requests = 1

\* An invocation ended after its only request failed
C5_Witness ==
  \E p \in FinishedSet :
    p.outcome = Some([kind |-> "network", body |-> None]) /\ p.requests = 1 /\ p.nl = 1

\* C6: when the fingerprint collection fails, the resolve request is still
\* issued, on the endpoint of the url and without any fp_ query parameter.
C6_NoFingerprint ==
  \A p \in SuspendedSet \cup FinishedSet :
    p.fp = Some(None) =>
      /\ p.requests = 1
      /\ p.path = ResolveEndpoint(p.url)
      /\ p.url = UrlShort => p.path = Some(ResolvePrefix \o << "c" >>)
      /\ p.url = UrlTemplate => p.path = Some(ResolvePrefix \o << "t", "/", "c" >>)
      /\ IndexOf(p.path.val, << "?" >>) = 0
      /\ IndexOf(p.path.val, << "f", "p", "_" >>) = 0

\* A request without fingerprint was answered and its record delivered
C6_Witness ==
  \E p \in FinishedSet :
    /\ p.fp = Some(None) /\ p.url = UrlTemplate /\ RemoteFound(p)
    /\ p.path = Some(ResolvePrefix \o << "t", "/", "c" >>)
    /\ Registered(p) /\ CalledOnceWith(p, Some(RemoteRecord))

(***************************************************************************)
(* LinkFortySDK: install attribution                                       *)
(***************************************************************************)

DataFields == { "shortCode", "utmParameters", "customParameters", "deepLinkParameters" }

\* JSON.stringify of a DeepLinkData: the keys whose value is undefined are left out
JSONstringify(d) == [f \in { g \in DataFields : d[g].some } |-> d[f].val]

\* JSON.parse of a stored DeepLinkData: a key the text lacks reads as undefined
JSONparse(j) == [f \in DataFields |-> IF f \in DOMAIN j THEN Some(j[f]) ELSE None]

\* getInstallData() on the stored item: a stored text parses to an object, no item gives null
GetInstallData(item) == IF item.some THEN Some(JSONparse(item.val)) ELSE None

\* b || a
OrSwapped(a, b) == IF b.some THEN b ELSE a

\* a || b on two optional objects: an object, even an empty one, is truthy
Or(a, b) == IF a.some THEN a ELSE b

\* Lines 479-483 of reportInstall: the delivered DeepLinkData
Normalize(deepLinkData) ==
  [deepLinkData EXCEPT
     !.customParameters = Or(deepLinkData.deepLinkParameters, deepLinkData.customParameters)]

\* if (this.deferredDeepLinkCallback) this.deferredDeepLinkCallback(data);
\* report is the number of the install report that makes the call, 0 for the
\* cached-data read of onDeferredDeepLink
NotifyDeferred(data, report) ==
  deferredCalls' =
    IF deferredDeepLinkCallback.some
    THEN Append(deferredCalls,
                [cb |-> deferredDeepLinkCallback.val, data |-> data, report |-> report])
    ELSE deferredCalls

\* The end of init() once reportInstall or loadInstallData has returned, for call i
Finish(i) ==
  /\ handlers' = Append(handlers, NewHandler)
  /\ deepLinkHandler' = Len(handlers) + 1
  /\ initialized' = TRUE
  /\ inits' = Without(inits, i)

\* reportInstall ends for call i: kind is attributed, organic or failed,
\* response the body received (None when there was none), data what the
\* callback is told; the entry of reports keeps the callback that was
\* registered when init() was called and the one registered now
ReportEnds(i, kind, response, data) ==
  /\ NotifyDeferred(data, Len(reports) + 1)
  /\ reports' = Append(reports, [kind |-> kind, response |-> response,
                                  cbAtStart |-> inits[i].cbAtStart,
                                  cb |-> deferredDeepLinkCallback])
  /\ Finish(i)

\* reportInstall that takes every response with a deepLinkData for attributed
AttributionAlways(i, r) ==
  IF r.deepLinkData.some
  THEN /\ storage' = [storage EXCEPT
                        !.install_data = Some(JSONstringify(Normalize(r.deepLinkData.val)))]
       /\ inits' = [inits EXCEPT ![i] =
                      [inits[i] EXCEPT !.pc = "storeData", !.response = Some(r),
                                       !.data = Some(Normalize(r.deepLinkData.val))]]
       /\ attributedEver' = TRUE
       /\ UNCHANGED << initialized, deepLinkHandler, handlers, deferredCalls, reports >>
  ELSE /\ ReportEnds(i, "organic", Some(r), None)
       /\ UNCHANGED << storage, attributedEver >>

\* Lines 474-508 of reportInstall for call i and response r
Attribution(i, r) ==
  IF r.attributed /\ r.deepLinkData.some
  THEN /\ storage' = [storage EXCEPT
                        !.install_data = Some(JSONstringify(Normalize(r.deepLinkData.val)))]
       /\ inits' = [inits EXCEPT ![i] =
                      [inits[i] EXCEPT !.pc = "storeData", !.response = Some(r),
                                       !.data = Some(Normalize(r.deepLinkData.val))]]
       /\ attributedEver' = TRUE
       /\ UNCHANGED << initialized, deepLinkHandler, handlers, deferredCalls, reports >>
  ELSE /\ ReportEnds(i, "organic", Some(r), None)
       /\ UNCHANGED << storage, attributedEver >>

\* An init() without the test of this.initialized
CallInitAgain(cfg) ==
  /\ calls < MaxCalls
  /\ calls' = calls + 1
  /\ config' = Some(cfg)
  /\ inits' = Append(inits, [pc |-> "isFirstLaunch", flag |-> storage.first_launch,
                             cachedId |-> None, response |-> None, data |-> None,
                             cbAtStart |-> deferredDeepLinkCallback])
  /\ UNCHANGED << initialized, installId, deferredDeepLinkCallback, deepLinkHandler,
                  handlers, linkVars, storage, lookups, clears, deferredCalls, reports,
                  attributedEver, flagAtLaunch, cleared >>

\* init(config): the guard, and the call of isFirstLaunch up to its getItem
CallInit(cfg) ==
  /\ calls < MaxCalls
  /\ calls' = calls + 1
  /\ IF initialized
     THEN /\ apiCalls' = Append(apiCalls, Skipped("init"))
          /\ UNCHANGED << config, inits >>
     ELSE /\ config' = Some(cfg)
          /\ inits' = Append(inits, [pc |-> "isFirstLaunch", flag |-> storage.first_launch,
                                     cachedId |-> None, response |-> None, data |-> None,
                                     cbAtStart |-> deferredDeepLinkCallback])
          /\ UNCHANGED apiCalls
  /\ UNCHANGED << initialized, installId, deferredDeepLinkCallback, deepLinkHandler,
                  handlers, listeners, initialUrl, initialPending, procs, finished,
                  started, regs, pin, pout, storage, lookups, clears, deferredCalls,
                  reports, attributedEver, flagAtLaunch, cleared >>

\* An isFirstLaunch that answers true whatever the stored flag
IsFirstLaunchAlways(i) ==
  /\ inits[i].pc = "isFirstLaunch"
  /\ storage' = [storage EXCEPT !.first_launch = Some("true")]
  /\ inits' = [inits EXCEPT ![i].pc = "setFlag"]
  /\ UNCHANGED << config, initialized, installId, deferredDeepLinkCallback,
                  deepLinkHandler, handlers, linkVars, lookups, clears, deferredCalls,
                  reports, attributedEver, flagAtLaunch, cleared, calls >>

\* isFirstLaunch after its getItem: sets the flag, or init goes on to loadInstallData
IsFirstLaunchRead(i) ==
  /\ inits[i].pc = "isFirstLaunch"
  /\ IF ~inits[i].flag.some
     THEN /\ storage' = [storage EXCEPT !.first_launch = Some("true")]
          /\ inits' = [inits EXCEPT ![i].pc = "setFlag"]
     ELSE /\ inits' = [inits EXCEPT ![i] =
                         [inits[i] EXCEPT !.pc = "loadInstallData",
                                          !.cachedId = storage.install_id]]
          /\ UNCHANGED storage
  /\ UNCHANGED << config, initialized, installId, deferredDeepLinkCallback,
                  deepLinkHandler, handlers, linkVars, lookups, clears, deferredCalls,
                  reports, attributedEver, flagAtLaunch, cleared, calls >>

\* isFirstLaunch returns true; reportInstall starts and awaits the fingerprint
ReportInstallStart(i) ==
  /\ inits[i].pc = "setFlag"
  /\ inits' = [inits EXCEPT ![i].pc = "collect"]
  /\ UNCHANGED << config, initialized, installId, deferredDeepLinkCallback,
                  deepLinkHandler, handlers, linkVars, storage, lookups, clears,
                  deferredCalls, reports, attributedEver, flagAtLaunch, cleared, calls >>

\* The fingerprint settles: the install request is sent, or the catch block runs
CollectDone(i, fp) ==
  /\ inits[i].pc = "collect"
  /\ IF fp.some
     THEN /\ inits' = [inits EXCEPT ![i].pc = "install"]
          /\ UNCHANGED << initialized, deepLinkHandler, handlers, deferredCalls, reports >>
     ELSE ReportEnds(i, "failed", None, None)
  /\ UNCHANGED << config, installId, deferredDeepLinkCallback, linkVars, storage, lookups,
                  clears, attributedEver, flagAtLaunch, cleared, calls >>

\* The install request settles
InstallDone(i, outcome) ==
  /\ inits[i].pc = "install"
  /\ IF outcome.kind # "ok"
     THEN /\ ReportEnds(i, "failed", None, None)
          /\ UNCHANGED << installId, storage, attributedEver >>
     ELSE LET r == outcome.body.val
          IN  IF r.installId.some /\ r.installId.val # << >>
              THEN /\ installId' = r.installId
                   /\ storage' = [storage EXCEPT !.install_id = r.installId]
                   /\ inits' = [inits EXCEPT ![i] =
                                  [inits[i] EXCEPT !.pc = "storeId", !.response = Some(r)]]
                   /\ UNCHANGED << initialized, deepLinkHandler, handlers, deferredCalls,
                                   reports, attributedEver >>
              ELSE /\ Attribution(i, r)
                   /\ UNCHANGED installId
  /\ UNCHANGED << config, deferredDeepLinkCallback, linkVars, lookups, clears,
                  flagAtLaunch, cleared, calls >>

\* setItem(INSTALL_ID) returns
StoreIdDone(i) ==
  /\ inits[i].pc = "storeId"
  /\ Attribution(i, inits[i].response.val)
  /\ UNCHANGED << config, installId, deferredDeepLinkCallback, linkVars, lookups, clears,
                  flagAtLaunch, cleared, calls >>

\* setItem(INSTALL_DATA) returns: the callback gets the normalized record
StoreDataDone(i) ==
  /\ inits[i].pc = "storeData"
  /\ ReportEnds(i, "attributed", inits[i].response, inits[i].data)
  /\ UNCHANGED << config, installId, deferredDeepLinkCallback, linkVars, storage, lookups,
                  clears, attributedEver, flagAtLaunch, cleared, calls >>

\* loadInstallData after its getItem
LoadInstallDataDone(i) ==
  /\ inits[i].pc = "loadInstallData"
  /\ installId' = inits[i].cachedId
  /\ Finish(i)
  /\ UNCHANGED << config, deferredDeepLinkCallback, linkVars, storage, lookups, clears,
                  deferredCalls, reports, attributedEver, flagAtLaunch, cleared, calls >>

\* onDeferredDeepLink(cb) up to the getItem of getInstallData
OnDeferredDeepLink(cb) ==
  /\ calls < MaxCalls
  /\ calls' = calls + 1
  /\ deferredDeepLinkCallback' = Some(cb)
  /\ lookups' = Append(lookups, storage.install_data)
  /\ UNCHANGED << config, initialized, installId, deepLinkHandler, handlers, linkVars,
                  storage, inits, clears, deferredCalls, reports, attributedEver,
                  flagAtLaunch, cleared >>

\* The then of getInstallData() in onDeferredDeepLink, oldest first
LookupDone ==
  /\ lookups # << >>
  /\ lookups' = Tail(lookups)
  /\ LET data == GetInstallData(Head(lookups))
     IN  IF data.some THEN NotifyDeferred(data, 0) ELSE UNCHANGED deferredCalls
  /\ UNCHANGED << config, initialized, installId, deferredDeepLinkCallback,
                  deepLinkHandler, handlers, linkVars, storage, inits, clears, reports,
                  attributedEver, flagAtLaunch, cleared, calls >>

\* clearData() up to its multiRemove
ClearData ==
  /\ calls < MaxCalls
  /\ calls' = calls + 1
  /\ clears' = clears + 1
  /\ storage' = EmptyStorage
  /\ cleared' = TRUE
  /\ attributedEver' = FALSE
  /\ UNCHANGED << config, initialized, installId, deferredDeepLinkCallback,
                  deepLinkHandler, handlers, linkVars, inits, lookups, deferredCalls,
                  reports, flagAtLaunch >>

\* multiRemove returns
ClearDataDone ==
  /\ clears > 0
  /\ clears' = clears - 1
  /\ installId' = None
  /\ UNCHANGED << config, initialized, deferredDeepLinkCallback, deepLinkHandler, handlers,
                  linkVars, storage, inits, lookups, deferredCalls, reports,
                  attributedEver, flagAtLaunch, cleared, calls >>

\* The app process ends and the app is launched again: memory is lost, AsyncStorage stays
Relaunch ==
  /\ calls < MaxCalls
  /\ calls' = calls + 1
  /\ flagAtLaunch' = storage.first_launch.some
  /\ config' = None
  /\ initialized' = FALSE
  /\ installId' = None
  /\ deferredDeepLinkCallback' = None
  /\ deepLinkHandler' = 0
  /\ handlers' = << >>
  /\ inits' = << >>
  /\ lookups' = << >>
  /\ clears' = 0
  /\ deferredCalls' = << >>
  /\ reports' = << >>
  /\ cleared' = FALSE
  /\ apiCalls' = << >>
  /\ listeners' = << >>
  /\ initialPending' = << >>
  /\ procs' = << >>
  /\ finished' = << >>
  /\ started' = 0
  /\ regs' = 0
  /\ UNCHANGED << initialUrl, storage, attributedEver, pin, pout >>

\* The outcomes of the event and link requests that apiRequest distinguishes
ApiOutcomes == {"ok", "http", "network"}

\* trackEvent without the check of the configuration
TrackEventUnchecked ==
  /\ calls < MaxCalls
  /\ calls' = calls + 1
  /\ apiCalls' = Append(apiCalls,
                        IF ~installId.some /\ config.some THEN Skipped("trackEvent")
                        ELSE InFlight("trackEvent"))
  /\ UNCHANGED << config, initialized, installId, deferredDeepLinkCallback,
                  deepLinkHandler, handlers, listeners, initialUrl, initialPending,
                  procs, finished, started, regs, storage, inits, lookups, clears,
                  deferredCalls, reports, attributedEver, flagAtLaunch, cleared, pin,
                  pout >>

\* trackEvent(name, properties) up to its request: it rejects without a configuration,
\* warns and returns without an install id, and otherwise posts the event
TrackEvent ==
  /\ calls < MaxCalls
  /\ calls' = calls + 1
  /\ apiCalls' = Append(apiCalls,
                        IF ~config.some THEN Refused("trackEvent", NotInitialized)
                        ELSE IF ~installId.some THEN Skipped("trackEvent")
                        ELSE InFlight("trackEvent"))
  /\ UNCHANGED << config, initialized, installId, deferredDeepLinkCallback,
                  deepLinkHandler, handlers, listeners, initialUrl, initialPending,
                  procs, finished, started, regs, storage, inits, lookups, clears,
                  deferredCalls, reports, attributedEver, flagAtLaunch, cleared, pin,
                  pout >>

\* trackEvent without the catch around its request
TrackEventDoneRejects(k, outcome) ==
  /\ apiCalls[k].api = "trackEvent"
  /\ apiCalls[k].result = "pending"
  /\ apiCalls' = [apiCalls EXCEPT ![k].result = IF outcome = "ok" THEN "returned" ELSE "failed",
                                  ![k].error = IF outcome = "ok" THEN None ELSE Some(outcome),
                                  ![k].outcome = Some(outcome)]
  /\ UNCHANGED << config, initialized, installId, deferredDeepLinkCallback,
                  deepLinkHandler, handlers, listeners, initialUrl, initialPending,
                  procs, finished, started, regs, storage, inits, lookups, clears,
                  deferredCalls, reports, attributedEver, flagAtLaunch, cleared, calls,
                  pin, pout >>

\* The event request of call k settles: a failure is caught and logged
TrackEventDone(k, outcome) ==
  /\ apiCalls[k].api = "trackEvent"
  /\ apiCalls[k].result = "pending"
  /\ apiCalls' = [apiCalls EXCEPT ![k].result = "returned", ![k].outcome = Some(outcome)]
  /\ UNCHANGED << config, initialized, installId, deferredDeepLinkCallback,
                  deepLinkHandler, handlers, listeners, initialUrl, initialPending,
                  procs, finished, started, regs, storage, inits, lookups, clears,
                  deferredCalls, reports, attributedEver, flagAtLaunch, cleared, calls,
                  pin, pout >>

\* createLink(options) up to its request: it rejects without a configuration or
\* without an API key, and otherwise posts the link
CreateLink ==
  /\ calls < MaxCalls
  /\ calls' = calls + 1
  /\ apiCalls' = Append(apiCalls,
                        IF ~config.some THEN Refused("createLink", NotInitialized)
                        ELSE IF ~config.val.apiKey.some
                             THEN Refused("createLink", ApiKeyRequired)
                        ELSE InFlight("createLink"))
  /\ UNCHANGED << config, initialized, installId, deferredDeepLinkCallback,
                  deepLinkHandler, handlers, listeners, initialUrl, initialPending,
                  procs, finished, started, regs, storage, inits, lookups, clears,
                  deferredCalls, reports, attributedEver, flagAtLaunch, cleared, pin,
                  pout >>

\* The link request of call k settles: the result is returned, a failure rejects
CreateLinkDone(k, outcome) ==
  /\ apiCalls[k].api = "createLink"
  /\ apiCalls[k].result = "pending"
  /\ apiCalls' = [apiCalls EXCEPT ![k].result = IF outcome = "ok" THEN "returned" ELSE "failed",
                                  ![k].error = IF outcome = "ok" THEN None ELSE Some(outcome),
                                  ![k].outcome = Some(outcome)]
  /\ UNCHANGED << config, initialized, installId, deferredDeepLinkCallback,
                  deepLinkHandler, handlers, listeners, initialUrl, initialPending,
                  procs, finished, started, regs, storage, inits, lookups, clears,
                  deferredCalls, reports, attributedEver, flagAtLaunch, cleared, calls,
                  pin, pout >>

\* A fresh install: the module-level singleton is constructed, nothing is stored
Init ==
  /\ config = None
  /\ initialized = FALSE
  /\ installId = None
  /\ deferredDeepLinkCallback = None
  /\ deepLinkHandler = 0
  /\ handlers = << >>
  /\ listeners = << >>
  /\ initialUrl = None
  /\ initialPending = << >>
  /\ procs = << >>
  /\ finished = << >>
  /\ started = 0
  /\ regs = 0
  /\ storage = EmptyStorage
  /\ inits = << >>
  /\ lookups = << >>
  /\ clears = 0
  /\ deferredCalls = << >>
  /\ reports = << >>
  /\ attributedEver = FALSE
  /\ flagAtLaunch = FALSE
  /\ cleared = FALSE
  /\ calls = 0
  /\ apiCalls = << >>
  /\ pin = None
  /\ pout = None

Next ==
  \/ CallInit(Config)
  \/ \E i \in 1..Len(inits) : IsFirstLaunchRead(i)
  \/ \E i \in 1..Len(inits) : ReportInstallStart(i)
  \/ \E i \in 1..Len(inits), fp \in FingerprintOutcomes : CollectDone(i, fp)
  \/ \E i \in 1..Len(inits), outcome \in InstallOutcomes : InstallDone(i, outcome)
  \/ \E i \in 1..Len(inits) : StoreIdDone(i)
  \/ \E i \in 1..Len(inits) : StoreDataDone(i)
  \/ \E i \in 1..Len(inits) : LoadInstallDataDone(i)
  \/ \E cb \in DeferredCallbacks : OnDeferredDeepLink(cb)
  \/ LookupDone
  \/ ClearData
  \/ ClearDataDone
  \/ Relaunch

Spec == Init /\ [][Next]_vars

\* The install answers used on the host API path: attributed with a record, organic,
\* and a rejected fetch
ApiInstallOutcomes ==
  { o \in InstallOutcomes :
      IF o.kind = "ok"
      THEN \/ ~o.body.val.attributed
           \/ o.body.val.deepLinkData.val = LinkData(Some(<< "c" >>), None, None, None)
      ELSE o.kind = "network" }

\* The host API of LinkFortySDK around init(): onDeepLink, trackEvent, createLink
NextApi ==
  \/ \E cfg \in Configs : CallInit(cfg)
  \/ \E i \in 1..Len(inits) : IsFirstLaunchRead(i)
  \/ \E i \in 1..Len(inits) : ReportInstallStart(i)
  \/ \E i \in 1..Len(inits) : CollectDone(i, Some(Fingerprint))
  \/ \E i \in 1..Len(inits), outcome \in ApiInstallOutcomes : InstallDone(i, outcome)
  \/ \E i \in 1..Len(inits) : StoreIdDone(i)
  \/ \E i \in 1..Len(inits) : StoreDataDone(i)
  \/ \E i \in 1..Len(inits) : LoadInstallDataDone(i)
  \/ OnDeepLink("cb1")
  \/ TrackEvent
  \/ \E k \in 1..Len(apiCalls), outcome \in ApiOutcomes : TrackEventDone(k, outcome)
  \/ CreateLink
  \/ \E k \in 1..Len(apiCalls), outcome \in ApiOutcomes : CreateLinkDone(k, outcome)
  \/ Relaunch

SpecApi == Init /\ [][NextApi]_vars

\* The host API on a fresh install and on a launch that follows a first launch whose
\* install report failed: the flag is stored, no install id is
InitLater ==
  /\ config = None
  /\ initialized = FALSE
  /\ installId = None
  /\ deferredDeepLinkCallback = None
  /\ deepLinkHandler = 0
  /\ handlers = << >>
  /\ listeners = << >>
  /\ initialUrl = None
  /\ initialPending = << >>
  /\ procs = << >>
  /\ finished = << >>
  /\ started = 0
  /\ regs = 0
  /\ storage \in { EmptyStorage, [EmptyStorage EXCEPT !.first_launch = Some("true")] }
  /\ inits = << >>
  /\ lookups = << >>
  /\ clears = 0
  /\ deferredCalls = << >>
  /\ reports = << >>
  /\ attributedEver = FALSE
  /\ flagAtLaunch = storage.first_launch.some
  /\ cleared = FALSE
  /\ calls = 0
  /\ apiCalls = << >>
  /\ pin = None
  /\ pout = None

SpecLater == InitLater /\ [][NextApi]_vars

\* Everything but the parser's input and output
hostVars ==
  << config, initialized, installId, deferredDeepLinkCallback, deepLinkHandler, handlers,
     listeners, initialUrl, initialPending, procs, finished, started, regs, storage,
     inits, lookups, clears, deferredCalls, reports, attributedEver, flagAtLaunch,
     cleared, calls, apiCalls >>

\* What an operation of the parser gave for its url
Output(op, parsed, result, endpoint, errors) ==
  [op |-> op, parsed |-> parsed, result |-> result, endpoint |-> endpoint,
   errors |-> errors]

\* DeepLinkHandler.parseUrlString(url)
ParseUrlString ==
  /\ pin.some /\ pout = None /\ IsUrl(pin.val)
  /\ pout' = Some(Output("parseUrlString", parseUrlString(Text(pin.val)), None, None,
                         parseUrlStringErrors(Text(pin.val))))
  /\ UNCHANGED << hostVars, pin >>

\* parseURL(url) of a handler whose baseUrl is BaseUrl
ParseURL ==
  /\ pin.some /\ pout = None /\ IsUrl(pin.val)
  /\ pout' = Some(Output("parseURL", None, parseURL(Some(BaseUrl), Text(pin.val)), None,
                         parseURLErrors(Some(BaseUrl), Text(pin.val))))
  /\ UNCHANGED << hostVars, pin >>

\* resolveURL(url) up to the choice of the endpoint
ResolveURL ==
  /\ pin.some /\ pout = None /\ IsUrl(pin.val)
  /\ pout' = Some(Output("resolveURL", None, None, ResolveEndpoint(Text(pin.val)),
                         parseUrlStringErrors(Text(pin.val))))
  /\ UNCHANGED << hostVars, pin >>

\* The url that apiRequest fetches for the resolve of code c with the query string
\* that resolveURL builds from params
ResolveUrlWith(params) ==
  BaseUrl \o ResolvePrefix \o << "c", "?" >> \o buildQueryString(params)

\* buildQueryString(params) as in resolveURL, and parseUrlString on the url built
RoundTrip ==
  /\ pin.some /\ pout = None /\ ~IsUrl(pin.val)
  /\ pout' = Some(Output("roundTrip", parseUrlString(ResolveUrlWith(pin.val.params)), None,
                         None, parseUrlStringErrors(ResolveUrlWith(pin.val.params))))
  /\ UNCHANGED << hostVars, pin >>

\* A url is handed to the parser of a handler constructed with BaseUrl
InitParse ==
  /\ config = Some(Config)
  /\ initialized = TRUE
  /\ installId = None
  /\ deferredDeepLinkCallback = None
  /\ deepLinkHandler = 1
  /\ handlers = << [callback |-> None, baseUrl |-> Some(BaseUrl), resolveFn |-> None] >>
  /\ listeners = << >>
  /\ initialUrl = None
  /\ initialPending = << >>
  /\ procs = << >>
  /\ finished = << >>
  /\ started = 0
  /\ regs = 0
  /\ storage = EmptyStorage
  /\ inits = << >>
  /\ lookups = << >>
  /\ clears = 0
  /\ deferredCalls = << >>
  /\ reports = << >>
  /\ attributedEver = FALSE
  /\ flagAtLaunch = FALSE
  /\ cleared = FALSE
  /\ calls = 1
  /\ apiCalls = << >>
  /\ pin \in { Some(in) : in \in ParseInputs \cup QueryInputs \cup ParamInputs }
  /\ pout = None

NextParse ==
  \/ ParseUrlString
  \/ ParseURL
  \/ ResolveURL
  \/ RoundTrip

SpecParse == InitParse /\ [][NextParse]_vars

(***************************************************************************)
(* Properties of install attribution                                       *)
(***************************************************************************)

\* The deferred callback calls made by install report k of this launch
CallsOf(k) == SelectSeq(deferredCalls, LAMBDA c : c.report = k)

\* Install report k got an attributed response that carries a deepLinkData
Attributed(k) ==
  /\ reports[k].response.some
  /\ reports[k].response.val.attributed
  /\ reports[k].response.val.deepLinkData.some

\* What the deferred callback is to be told for install report k
Expected(k) ==
  IF Attributed(k) THEN Some(Normalize(reports[k].response.val.deepLinkData.val)) ELSE None

\* C7: on a first launch with one init() and one onDeferredDeepLink(), once
\* the install report has completed the callback has been called exactly
\* once, with the attributed data or with null, both when it was registered
\* before init() was called and when it was registered after init() returned.
C7_DeferredOnce ==
  ( /\ ~flagAtLaunch /\ ~cleared /\ calls = 2
    /\ Len(reports) = 1 /\ inits = << >> /\ lookups = << >>
    /\ deferredDeepLinkCallback.some
    /\ reports[1].cbAtStart.some \/ ~reports[1].cb.some )
  => /\ Len(deferredCalls) = 1
     /\ deferredCalls[1].cb = deferredDeepLinkCallback.val
     /\ deferredCalls[1].data = Expected(1)

\* C8: when the install response is not attributed or the report fails, the
\* callback registered at that moment is called once with null and never
\* with a record, and no install data is stored: as long as no attributed
\* response was received, getInstallData() yields null.
C8_OrganicNull ==
  /\ \A k \in 1..Len(reports) :
       ~Attributed(k) =>
         CallsOf(k) = IF reports[k].cb.some
                      THEN << [cb |-> reports[k].cb.val, data |-> None, report |-> k] >>
                      ELSE << >>
  /\ ~attributedEver => GetInstallData(storage.install_data) = None

\* An organic response ended in one call with null while no install data is
\* stored
C8_Witness ==
  /\ \E k \in 1..Len(reports) :
       /\ reports[k].response.some /\ ~reports[k].response.val.attributed
       /\ Len(CallsOf(k)) = 1 /\ CallsOf(k)[1].data = None
  /\ GetInstallData(storage.install_data) = None
  /\ storage.first_launch.some

\* C9: the customParameters of the delivered and stored record are the
\* deepLinkParameters of the payload when it has them, else its
\* customParameters, else absent; a payload that names the map
\* deepLinkParameters and one that names it customParameters give the same
\* customParameters; the other fields are those of the payload.
C9_Normalized ==
  /\ \A k \in 1..Len(reports) :
       Attributed(k) =>
         LET payload == reports[k].response.val.deepLinkData.val
             want == IF payload.deepLinkParameters.some THEN payload.deepLinkParameters
                     ELSE payload.customParameters
         IN  /\ \A j \in 1..Len(CallsOf(k)) :
                  /\ CallsOf(k)[j].data.some
                  /\ CallsOf(k)[j].data.val.customParameters = want
                  /\ CallsOf(k)[j].data.val.shortCode = payload.shortCode
                  /\ CallsOf(k)[j].data.val.utmParameters = payload.utmParameters
                  /\ CallsOf(k)[j].data.val.deepLinkParameters = payload.deepLinkParameters
             /\ reports[k].cb.some => Len(CallsOf(k)) = 1
  /\ \A i \in 1..Len(inits) :
       inits[i].pc = "storeData" =>
         inits[i].data.val.customParameters =
           (IF inits[i].response.val.deepLinkData.val.deepLinkParameters.some
            THEN inits[i].response.val.deepLinkData.val.deepLinkParameters
            ELSE inits[i].response.val.deepLinkData.val.customParameters)
  /\ Normalize(LinkData(Some(<< "c" >>), None, None, Some(MapA))).customParameters
       = Normalize(LinkData(Some(<< "c" >>), None, Some(MapA), None)).customParameters

\* A payload with both names was delivered with the deepLinkParameters map
C9_Witness ==
  \E k \in 1..Len(reports) :
    /\ Attributed(k)
    /\ reports[k].response.val.deepLinkData.val.customParameters = Some(MapX)
    /\ reports[k].response.val.deepLinkData.val.deepLinkParameters = Some(MapA)
    /\ Len(CallsOf(k)) = 1
    /\ CallsOf(k)[1].data.val.customParameters = Some(MapA)

\* C10: the deferred callback is called on the first launch only: on a
\* launch that began with the first-launch flag stored, and without a
\* clearData() on it, no registration leads to a call.
C10_FirstLaunchOnly ==
  (flagAtLaunch /\ ~cleared) => deferredCalls = << >>

\* A step in which a clearData() call completes: its multiRemove has returned and
\* installId has been reset
ClearCompletes == clears' = clears - 1 /\ calls' = calls

\* A step in which the app is launched again
Relaunches == calls' = calls + 1 /\ config' = None /\ inits' = << >> /\ cleared' = FALSE

\* C11: when clearData() completes, the install id, the install data and the
\* first-launch flag are all gone from storage and installId is null; the launch that
\* follows a completed clearData() starts without a first-launch flag, and an init()
\* that found no flag goes on to the install report, never to the cached data.
C11_ClearedFresh ==
  /\ [][ClearCompletes => (storage' = EmptyStorage /\ installId' = None)]_vars
  /\ [][(Relaunches /\ cleared /\ clears = 0) => ~flagAtLaunch']_vars
  /\ [](\A i \in 1..Len(inits) : inits[i].pc = "loadInstallData" => inits[i].flag.some)

\* The host API calls that need the configuration
GuardedApis == {"onDeepLink", "trackEvent", "createLink"}

\* A step in which onDeepLink, trackEvent or createLink is called
ApiCalled == regs' = regs + 1 \/ Len(apiCalls') = Len(apiCalls) + 1

\* A step in which trackEvent is called
TrackEventCalled ==
  /\ Len(apiCalls') = Len(apiCalls) + 1
  /\ apiCalls'[Len(apiCalls')].api = "trackEvent"

\* C12: a call of onDeepLink, trackEvent or createLink made while the configuration
\* is not set fails with the 'SDK not initialized' error and has no effect: nothing is
\* sent, no listener or handler is registered, and no field or stored key changes.
C12_NotInitialized ==
  [][(config = None /\ ApiCalled) =>
       /\ \E api \in GuardedApis :
            apiCalls' = Append(apiCalls, Refused(api, NotInitialized))
       /\ UNCHANGED << config, initialized, installId, deferredDeepLinkCallback,
                       deepLinkHandler, handlers, listeners, initialUrl, initialPending,
                       procs, finished, started, storage, inits, lookups, clears,
                       deferredCalls, reports, attributedEver, flagAtLaunch, cleared >>]_vars

\* Each of the three calls was made before init() and was refused
C12_Witness ==
  /\ config = None
  /\ listeners = << >>
  /\ Len(apiCalls) = 3
  /\ \A api \in GuardedApis :
       \E k \in 1..Len(apiCalls) : apiCalls[k] = Refused(api, NotInitialized)

\* C13: once the configuration is set, a trackEvent call sends its request exactly
\* when installId is set; without an install id it sends nothing and returns; and no
\* trackEvent call made with the configuration set ever fails, whatever the outcome
\* of its request.
C13_TrackEventQuiet ==
  /\ [][(config # None /\ TrackEventCalled) =>
          apiCalls'[Len(apiCalls')] =
            IF installId.some THEN InFlight("trackEvent") ELSE Skipped("trackEvent")]_vars
  /\ [](\A k \in 1..Len(apiCalls) :
          (apiCalls[k].api = "trackEvent" /\ apiCalls[k].result = "failed") =>
            apiCalls[k] = Refused("trackEvent", NotInitialized))

\* One trackEvent call returned without sending for want of an install id, and
\* another returned although its request failed
C13_Witness ==
  /\ \E k \in 1..Len(apiCalls) : apiCalls[k] = Skipped("trackEvent")
  /\ \E k \in 1..Len(apiCalls) :
       /\ apiCalls[k].api = "trackEvent"
       /\ apiCalls[k].sent
       /\ apiCalls[k].result = "returned"
       /\ apiCalls[k].outcome = Some("network")

\* C14: every record handed to the deferred callback has a shortCode that is present
\* and not empty; an install response whose deepLinkData has no shortCode leads to a
\* call with null, never to a call with a record that lacks shortCode.
C14_ShortCodePresent ==
  \A j \in 1..Len(deferredCalls) :
    deferredCalls[j].data.some =>
      /\ deferredCalls[j].data.val.shortCode.some
      /\ deferredCalls[j].data.val.shortCode.val # << >>

\* The operation op was applied to the url pin
Applied(op) == pin.some /\ pout.some /\ pout.val.op = op

\* The url pin has '://' and a '/' after its authority
HasPath(in) == in.prefix # NoScheme /\ in.segs # << >>

\* C15: resolveURL picks /api/sdk/v1/resolve/{segment0}/{segment1} when the parsed path
\* has two or more non-empty segments, /api/sdk/v1/resolve/{segment0} when it has one,
\* and returns null before any request when it has none or the url does not parse;
\* the segments are those written in the url, and a url without '://' or with a
\* malformed escape in its query does not parse.
C15_EndpointSelection ==
  Applied("resolveURL") =>
    LET in == pin.val
        parsed == parseUrlString(Text(in))
        segs == IF parsed.some THEN PathSegments(parsed.val.pathname) ELSE << >>
    IN  /\ pout.val.endpoint =
             (IF Len(segs) >= 2
              THEN Some(ResolvePrefix \o segs[1] \o << "/" >> \o segs[2])
              ELSE IF Len(segs) = 1 THEN Some(ResolvePrefix \o segs[1])
              ELSE None)
        /\ (HasPath(in) /\ in.query.ok) => (parsed.some /\ segs = FilterNonEmpty(in.segs))
        /\ (in.prefix = NoScheme \/ (in.segs # << >> /\ ~in.query.ok)) => ~parsed.some

\* A url with three segments was resolved at the endpoint of its first two
C15_Witness ==
  /\ Applied("resolveURL")
  /\ pin.val.prefix = BaseUrl
  /\ pin.val.segs = << << "t" >>, << "c" >>, << "t" >> >>
  /\ pout.val.endpoint = Some(ResolvePrefix \o << "t", "/", "c" >>)

\* C16: for a url that starts with baseUrl and parses, parseURL returns a record whose
\* shortCode is the last non-empty segment of the parsed path when there is one, and
\* null when there is none; the segments are those written in the url, so a/{code}
\* and a/{slug}/{code} both give the trailing code.
C16_ShortCodeLast ==
  Applied("parseURL") =>
    LET in == pin.val
        parsed == parseUrlString(Text(in))
        segs == IF parsed.some THEN PathSegments(parsed.val.pathname) ELSE << >>
    IN  (StartsWith(Text(in), BaseUrl) /\ parsed.some) =>
          /\ IF segs = << >> THEN pout.val.result = None
             ELSE /\ pout.val.result.some
                  /\ pout.val.result.val.shortCode = Some(segs[Len(segs)])
                  /\ segs[Len(segs)] # << >>
          /\ in.segs # << >> => segs = FilterNonEmpty(in.segs)

\* The slug form gave the trailing code, and not the slug
C16_Witness ==
  /\ Applied("parseURL")
  /\ pin.val.prefix = BaseUrl
  /\ pin.val.segs = << << "t" >>, << "c" >>, << >> >>
  /\ pout.val.result.some
  /\ pout.val.result.val.shortCode = Some(<< "c" >>)

\* C17: in every record parseURL returns, customParameters holds exactly the parsed
\* query parameters whose key does not start with utm_, each with its value, and is
\* absent, never an empty map, when there is no such key; the parsed query parameters
\* are those the query string spells out.
C17_CustomParameters ==
  (Applied("parseURL") /\ pout.val.result.some) =>
    LET in == pin.val
        sp == parseUrlString(Text(in)).val.searchParams
        keys == { k \in DOMAIN sp : ~StartsWith(k, << "u", "t", "m", "_" >>) }
        custom == pout.val.result.val.customParameters
    IN  /\ custom = IF keys = {} THEN None ELSE Some([k \in keys |-> sp[k]])
        /\ custom.some => DOMAIN custom.val # {}
        /\ in.segs # << >> => sp = in.query.params

\* A query with a utm_ key and another key gave the other key alone
C17_Witness ==
  /\ Applied("parseURL")
  /\ pin.val.query = QueryMixed
  /\ pin.val.segs = << << "c" >> >>
  /\ pout.val.result.some
  /\ pout.val.result.val.customParameters = Some((<< "r" >> :> << "4", "2" >>))

\* The query key read for each field of utmParameters
UtmKeys ==
  [source   |-> << "u", "t", "m", "_", "s", "o", "u", "r", "c", "e" >>,
   medium   |-> << "u", "t", "m", "_", "m", "e", "d", "i", "u", "m" >>,
   campaign |-> << "u", "t", "m", "_", "c", "a", "m", "p", "a", "i", "g", "n" >>,
   term     |-> << "u", "t", "m", "_", "t", "e", "r", "m" >>,
   content  |-> << "u", "t", "m", "_", "c", "o", "n", "t", "e", "n", "t" >>]

\* C18 as stated: in every record parseURL returns, utmParameters is present and each
\* of its five fields holds the decoded value of its utm_ query parameter when the
\* query has that parameter, and is absent otherwise.
C18_UtmWhenPresent ==
  (Applied("parseURL") /\ pout.val.result.some) =>
    LET sp == parseUrlString(Text(pin.val)).val.searchParams
        utm == pout.val.result.val.utmParameters
    IN  /\ utm.some
        /\ DOMAIN utm.val = DOMAIN UtmKeys
        /\ \A f \in DOMAIN UtmKeys :
             utm.val[f] = IF UtmKeys[f] \in DOMAIN sp THEN Some(sp[UtmKeys[f]]) ELSE None

\* C18, amended: in every record parseURL returns, utmParameters is present and each
\* of its five fields holds the decoded value of its utm_ query parameter when the
\* query has that parameter with a value that is not empty, and is absent otherwise,
\* so also when the parameter is there with an empty value; the parsed query
\* parameters are those the query string spells out, decoded.
C18_UtmWhenNonEmpty ==
  (Applied("parseURL") /\ pout.val.result.some) =>
    LET in == pin.val
        sp == parseUrlString(Text(in)).val.searchParams
        utm == pout.val.result.val.utmParameters
    IN  /\ utm.some
        /\ DOMAIN utm.val = DOMAIN UtmKeys
        /\ \A f \in DOMAIN UtmKeys :
             utm.val[f] = IF UtmKeys[f] \in DOMAIN sp /\ sp[UtmKeys[f]] # << >>
                          THEN Some(sp[UtmKeys[f]])
                          ELSE None
        /\ in.segs # << >> => sp = in.query.params

\* utm_medium=%41 gave medium = A and left the other four fields absent
C18_Witness ==
  /\ Applied("parseURL")
  /\ pin.val.query = QueryUtmOnly
  /\ pin.val.segs = << << "c" >> >>
  /\ pout.val.result.some
  /\ pout.val.result.val.utmParameters.val.medium = Some(<< "A" >>)
  /\ \A f \in DOMAIN UtmKeys \ {"medium"} :
       pout.val.result.val.utmParameters.val[f] = None

C20_FragmentIgnored ==
  Applied("parseUrlString") =>
    pout.val.parsed = parseUrlString(Text([pin.val EXCEPT !.frag = None]))

\* C21: for a url with '://' and a '?', whose query is well formed, parseUrlString
\* gives as path the text from the first '/' after the authority up to the '?', or
\* '/' when no '/' follows the authority, and as query parameters those the text
\* between the '?' and the '#' or the end spells out; a '/' in the query is never
\* part of the path.
C21_PathQuerySplit ==
  (Applied("parseUrlString") /\ pin.val.prefix # NoScheme
     /\ pin.val.query.text.some /\ pin.val.query.ok) =>
    /\ pout.val.parsed.some
    /\ pout.val.parsed.val.pathname =
         (IF pin.val.segs = << >> THEN << "/" >> ELSE PathText(pin.val.segs))
    /\ pout.val.parsed.val.searchParams = pin.val.query.params

\* C22: for a url with '://' whose query string has a malformed percent escape,
\* parseUrlString fails and parseURL returns null, so that the handler has no local
\* record and tells its callback null.
C22_BadEscapeFails ==
  (pin.some /\ pout.some /\ IsUrl(pin.val) /\ pin.val.prefix # NoScheme /\ ~pin.val.query.ok) =>
    /\ pout.val.op = "parseUrlString" => pout.val.parsed = None
    /\ pout.val.op = "parseURL" => pout.val.result = None
    /\ pout.val.op = "resolveURL" => pout.val.endpoint = None

\* C23: for every url without '://', parseUrlString fails and parseURL returns null,
\* whatever follows in the text.
C23_NoSchemeFails ==
  (pin.some /\ pout.some /\ IsUrl(pin.val) /\ IndexOf(Text(pin.val), << ":", "/", "/" >>) = 0) =>
    /\ pout.val.op = "parseUrlString" => pout.val.parsed = None
    /\ pout.val.op = "parseURL" => pout.val.result = None

\* A text without '://' that has a path and a query was handed to the parser, which
\* failed
C23_Witness ==
  /\ Applied("parseUrlString")
  /\ pin.val.prefix = NoScheme
  /\ pin.val.segs = << << "c" >> >>
  /\ pin.val.query = QueryCustom
  /\ pout.val.parsed = None

\* The map an object spells out, from its list of entries
ExpectedMap(l) ==
  [k \in { l[i][1] : i \in 1..Len(l) } |->
     l[CHOOSE i \in 1..Len(l) : l[i][1] = k][2]]

\* C24: for every object of key / value strings, also with & = % space # ? / in
\* them, the query string buildQueryString makes of it is parsed back by
\* parseUrlString into exactly its keys, each with its value.
C24_RoundTrip ==
  Applied("roundTrip") =>
    /\ pout.val.parsed.some
    /\ pout.val.parsed.val.searchParams = ExpectedMap(pin.val.params)

\* Two entries made of reserved characters came back as they were
C24_Witness ==
  /\ Applied("roundTrip")
  /\ pin.val.params = << << << "&", "=" >>, << "%" >> >>, << << " ", "#" >>, << "?", "/" >> >> >>
  /\ pout.val.parsed.some
  /\ pout.val.parsed.val.searchParams =
       (<< "&", "=" >> :> << "%" >>) @@ (<< " ", "#" >> :> << "?", "/" >>)

\* The invocation needs the network: it has local data, its handler has a resolver
\* and the url starts with the handler's baseUrl
NeedsNetwork(hd, p) ==
  /\ p.localData.some
  /\ hd.resolveFn.some
  /\ hd.baseUrl.some /\ StartsWith(p.url, hd.baseUrl.val)

\* C25: an invocation of handleDeepLink is suspended only when it needs the network;
\* one that does not (no local data, or no resolver) has called the callback, once
\* and with the local result, within the step in which its url event arrived, so
\* such events are delivered in the order of their arrival, and no invocation that
\* was started is lost.
C25_LocalAtOnce ==
  [][started' > started =>
       LET new == SubSeq(procs', Len(procs) + 1, Len(procs'))
       IN  /\ Len(new) + Len(finished') = started' - started
           /\ \A k \in 1..Len(new) : NeedsNetwork(handlers[new[k].h], new[k])
           /\ \A k \in 1..Len(finished') :
                LET p == finished'[k]
                IN  p.received =>
                      /\ ~NeedsNetwork(handlers[p.h], p)
                      /\ p.requests = 0 /\ p.fp = None
                      /\ Len(p.calls) = 1
                      /\ p.calls[1].url = p.url
                      /\ p.calls[1].data = p.localData]_vars

\* The second url event of a handler without resolver was delivered at its arrival,
\* with its local data, and nothing is suspended
C25_Witness ==
  /\ started = 2 /\ procs = << >>
  /\ Len(finished) = 1
  /\ finished[1].ev = 2
  /\ handlers[finished[1].h].resolveFn = None
  /\ finished[1].localData.some
  /\ Len(finished[1].calls) = 1
  /\ finished[1].calls[1].data = finished[1].localData

\* C26: no invocation of handleDeepLink, that is no url event on a listener, calls the
\* callback twice, also when the callback raises while it is handed the remote
\* record.
C26_NeverTwice ==
  \A k \in 1..Len(finished) : Len(finished[k].calls) <= 1

\* C27: after a callback has been registered again with onDeepLink, every url event
\* leads to exactly one invocation of handleDeepLink, which calls the callback
\* registered last and no earlier one: the event is emitted to one listener.
C27_OneCallPerEvent ==
  /\ \A k \in 1..Len(procs) : procs[k].ev > 0 => procs[k].nl = 1
  /\ \A k \in 1..Len(finished) :
       finished[k].ev > 0 =>
         /\ finished[k].nl = 1
         /\ \A j \in 1..Len(finished[k].calls) :
              Some(finished[k].calls[j].cb) = handlers[finished[k].h].callback

\* C28: an invocation of handleDeepLink that finishes once cleanup() has cleared the
\* callback, the one whose resolution was in flight included, calls no callback and
\* raises no fault; a url event after cleanup() reaches no listener.
C28_CleanupQuiet ==
  \A k \in 1..Len(finished) :
    ~handlers[finished[k].h].callback.some =>
      /\ finished[k].calls = << >>
      /\ finished[k].fault = "none"

\* The run so far is one init(), whose install report has ended, and at most one
\* other call of the host: the launch has seen at most one onDeferredDeepLink(cb)
OneRegistration == calls <= 2 /\ Len(reports) = 1

\* C29: however onDeferredDeepLink(cb) interleaves with an init() that is running its
\* install report, the deferred callback is called at most once on that launch:
\* never by the report and by the cached-data read of the registration as well.
C29_DeferredOnce ==
  OneRegistration => Len(deferredCalls) <= 1

\* C30: resolveURL settles with a record or with null whatever its resolver does: it
\* never rejects, that is it hands no error to handleDeepLink.
C30_ResolveNeverRejects ==
  \A k \in 1..Len(finished) :
    finished[k].resolved.some => ~finished[k].resolved.val.rejected

\* C31: for every url that parseURL recognizes, with any number of path segments, the
\* code that ends the endpoint path chosen by resolveURL is the shortCode of the
\* record that parseURL returns.
C31_ConsistentRouting ==
  Applied("resolveURL") =>
    LET local == parseURL(Some(BaseUrl), Text(pin.val))
        named == IF pout.val.endpoint.some THEN PathSegments(pout.val.endpoint.val)
                 ELSE << >>
    IN  local.some =>
          /\ named # << >>
          /\ Some(named[Len(named)]) = local.val.shortCode

\* C32: the shortCode that parseURL returns for a url of the base whose query is well
\* formed is the percent-decoded text of the last non-empty path segment.
C32_SegmentDecoded ==
  Applied("parseURL") =>
    LET in == pin.val
        segs == FilterNonEmpty(in.segs)
    IN  (in.prefix = BaseUrl /\ segs # << >> /\ in.query.ok) =>
          /\ pout.val.result.some
          /\ pout.val.result.val.shortCode = Some(decodeURIComponent(segs[Len(segs)]).val)

\* C33: for a url with a path, parseUrlString gives the parameters its query string
\* spells out: pairs are split on '&', each on its first '=', a pair without '=' has
\* the empty value, the last occurrence of a key wins, and key and value are
\* decoded each on its own.
C33_QuerySplit ==
  Applied("parseUrlString") =>
    LET in == pin.val
    IN  (HasPath(in) /\ in.query.ok) =>
          /\ pout.val.parsed.some
          /\ pout.val.parsed.val.searchParams = in.query.params

\* k=1&k=2 was parsed and k maps to 2
C33_Witness ==
  /\ Applied("parseUrlString")
  /\ pin.val.query.text = Some(<< "k", "=", "1", "&", "k", "=", "2" >>)
  /\ pout.val.parsed.some
  /\ pout.val.parsed.val.searchParams[<< "k" >>] = << "2" >>

\* C34: url events handled at the same time do not interfere.  Every call of the
\* callback has the url of its own invocation and either the local parse of that url
\* or the body answered to the request made for that url; an invocation delivers in
\* the step in which its resolution completes, so that deliveries follow the order
\* of completion and none waits for an earlier event.
C34_Independent ==
  /\ \A k \in 1..Len(procs) : procs[k].outcome = None /\ procs[k].calls = << >>
  /\ \A k \in 1..Len(finished) :
       LET p == finished[k]
       IN  /\ p.endpoint.some => p.endpoint = ResolveEndpoint(p.url)
           /\ \A j \in 1..Len(p.calls) :
                /\ p.calls[j].url = p.url
                /\ \/ p.calls[j].data = parseURL(handlers[p.h].baseUrl, p.url)
                   \/ RemoteFound(p) /\ p.calls[j].data = p.outcome.val.body

\* The second of two events was delivered with its remote record while the
\* resolution of the first, for another url, is still in flight
C34_Witness ==
  \E k \in 1..Len(finished), i \in 1..Len(procs) :
    /\ finished[k].ev > procs[i].ev
    /\ procs[i].ev > 0
    /\ procs[i].pc = "fetch"
    /\ finished[k].url # procs[i].url
    /\ RemoteFound(finished[k])
    /\ Len(finished[k].calls) = 1
    /\ finished[k].calls[1].data = finished[k].outcome.val.body

\* C35: as long as clearData has not been called, getInstallData() returns the
\* normalized record that an attributed install report handed to the deferred
\* callback, and it returns null as long as no report was attributed.
C35_StoredIsDelivered ==
  /\ ~attributedEver => GetInstallData(storage.install_data) = None
  /\ \A j \in 1..Len(deferredCalls) :
       (deferredCalls[j].report > 0 /\ deferredCalls[j].data.some /\ ~cleared) =>
         GetInstallData(storage.install_data) = deferredCalls[j].data

\* An init() of this launch that has taken the first-launch branch
Reporting(i) == inits[i].pc \notin {"isFirstLaunch", "loadInstallData"}

\* C36: on a launch that finds the first-launch flag stored and no install id, as
\* after a first launch whose report failed, init() sends no install report,
\* installId stays null and no trackEvent sends a request.
C36_NoLaterReport ==
  (flagAtLaunch /\ storage.install_id = None) =>
    /\ reports = << >>
    /\ \A i \in 1..Len(inits) : ~Reporting(i)
    /\ installId = None
    /\ \A k \in 1..Len(apiCalls) : apiCalls[k].api = "trackEvent" => ~apiCalls[k].sent

\* On such a launch init() has completed and a trackEvent has returned without a
\* request
C36_Witness ==
  /\ flagAtLaunch /\ storage.install_id = None
  /\ initialized /\ inits = << >>
  /\ \E k \in 1..Len(apiCalls) :
       apiCalls[k] = Skipped("trackEvent")

\* The install request of init() call i has been sent
Sent(i) == inits[i].pc \in {"install", "storeId", "storeData"}

\* C37: however two init() calls on one instance interleave, at most one install
\* request is sent on a launch, and the installId it obtained is not set back to
\* null by anything but clearData or the end of the process.
C37_OneReport ==
  /\ [](~cleared =>
          Cardinality({ i \in 1..Len(inits) : Sent(i) })
            + Cardinality({ k \in 1..Len(reports) : reports[k].response.some }) <= 1)
  /\ [][(installId.some /\ ~installId'.some) => (cleared' \/ calls' > calls)]_vars

\* C38: an init(cfg) called once this.initialized is set, with the same or another
\* configuration, changes neither config, installId, the deep link handler nor a
\* stored key, and starts no initialization: no request is sent.
C38_InitNoOp ==
  [][(initialized /\ \E cfg \in Configs : CallInit(cfg)) =>
       UNCHANGED << config, initialized, installId, deferredDeepLinkCallback,
                    deepLinkHandler, handlers, listeners, storage, inits, lookups,
                    reports, deferredCalls >>]_vars

\* init() returned at once on an initialized SDK that has an install id
C38_Witness ==
  /\ initialized /\ installId.some /\ inits = << >>
  /\ \E k \in 1..Len(apiCalls) : apiCalls[k] = Skipped("init")

====
